-------------------------- MODULE TerminalLinkProofs --------------------------
(***************************************************************************)
(* What the terminals' connection promises, for every number of boxes, of  *)
(* presses and of restarts, and with the dynamic pictures on or off.       *)
(*                                                                         *)
(* A press is in many places at once: on the broker's link, in the inbox,  *)
(* in the worker's hands, in the answers kept in memory and in the         *)
(* receipts of the database.  Five invariants, each leaning on those       *)
(* before it, say where it can be: Typed (the bounds), Ordered (a link     *)
(* carries the boots of its box in order), Presses (a press is one         *)
(* message, pressed once), Decided (an answer, a receipt and an effect     *)
(* agree) and Ended (the work of an earlier connection never comes back).  *)
(***************************************************************************)
EXTENDS TerminalLink, SequenceTheorems, FiniteSetTheorems, TLAPS

Boxes == [boot : Boots, shows : Views \cup {None}]
Connected == [boot : Boots, frame : Views \cup {None}]

\* The rooms that are taken are finitely many, as long as each is taken by itself.
Typed ==
    /\ TypeOK
    /\ IsFiniteSet(Known(sessions)) /\ IsFiniteSet(Known(connections))

-----------------------------------------------------------------------------
(* What the operators of the model make *)

LEMMA BootsAreNumbers ==
    /\ Boots \subseteq Nat
    /\ \A d \in Devices : \A n \in 0 .. MaxBoot[d] : n \in Boots
<1> QED BY LinkAssumption DEF Boots

LEMMA MessageFields ==
    ASSUME NEW m \in Message
    PROVE  /\ m.leaf \in {"hello", "presence", "command"}
           /\ m.device \in Devices /\ m.boot \in Boots /\ m.boot \in Nat
           /\ m.leaf = "command" => m.command \in Commands /\ m.token \in Views
           /\ m.leaf # "command" => m.command = None
           /\ m.command \in Commands => m.leaf = "command"
<1>1. CASE m \in [leaf : {"hello", "presence"}, device : Devices, boot : Boots, command : {None}, token : {None}]
  <2>1. /\ m.leaf \in {"hello", "presence"} /\ m.command = None /\ m.device \in Devices /\ m.boot \in Boots
    BY <1>1
  <2> QED BY <2>1, BootsAreNumbers, LinkAssumption
<1>2. CASE m \in [leaf : {"command"}, device : Devices, boot : Boots, command : Commands, token : Views]
  <2>1. /\ m.leaf = "command" /\ m.command \in Commands /\ m.token \in Views
        /\ m.device \in Devices /\ m.boot \in Boots
    BY <1>2
  <2> QED BY <2>1, BootsAreNumbers
<1> QED BY <1>1, <1>2 DEF Message

\* The worker's pictures: a box that gets one keeps its connection.
LEMMA Paints ==
    ASSUME box \in [Devices -> Boxes],
           NEW conns \in [Devices -> {None} \cup Connected],
           NEW pictures \in [Devices -> Views], NEW painted, Paint(conns, painted, pictures)
    PROVE  /\ box' \in [Devices -> Boxes]
           /\ connections' \in [Devices -> {None} \cup Connected]
           /\ Known(connections') \subseteq Known(conns)
           /\ \A d \in Devices :
                /\ box'[d].boot = box[d].boot
                /\ box'[d].shows = box[d].shows \/ box'[d].shows = pictures[d]
<1> DEFINE sentTo == {d \in painted : conns[d] # None /\ conns[d].frame # pictures[d]}
<1>1. /\ connections' = [d \in Devices |-> IF d \in sentTo THEN [conns[d] EXCEPT !.frame = pictures[d]]
                                             ELSE conns[d]]
      /\ box' = [d \in Devices |-> IF d \in sentTo /\ conns[d].boot = box[d].boot
                                     THEN [box[d] EXCEPT !.shows = pictures[d]] ELSE box[d]]
  BY DEF Paint
<1>2. ASSUME NEW d \in Devices
      PROVE  /\ conns[d] # None => [conns[d] EXCEPT !.frame = pictures[d]] \in Connected
             /\ [box[d] EXCEPT !.shows = pictures[d]] \in Boxes
             /\ [box[d] EXCEPT !.shows = pictures[d]].boot = box[d].boot
             /\ [box[d] EXCEPT !.shows = pictures[d]].shows = pictures[d]
  <2>1. box[d] \in Boxes /\ pictures[d] \in Views /\ (conns[d] # None => conns[d] \in Connected)
    OBVIOUS
  <2> QED BY <2>1 DEF Boxes, Connected
<1>3. \A d \in Devices : d \in sentTo => conns[d] # None
  OBVIOUS
<1> HIDE DEF sentTo
<1> QED BY <1>1, <1>2, <1>3 DEF Known

LEMMA RoomForOne ==
    ASSUME NEW conns \in [Devices -> {None} \cup Connected], NEW d \in Devices,
           IsFiniteSet(Known(conns)), Cardinality(Known(conns)) <= MaxSessions, HasRoom(conns, d),
           NEW others \in [Devices -> {None} \cup Connected], Known(others) \subseteq Known(conns) \cup {d}
    PROVE  IsFiniteSet(Known(others)) /\ Cardinality(Known(others)) <= MaxSessions
<1>1. /\ IsFiniteSet(Known(conns) \cup {d})
      /\ Cardinality(Known(conns) \cup {d}) =
            IF d \in Known(conns) THEN Cardinality(Known(conns)) ELSE Cardinality(Known(conns)) + 1
  BY FS_AddElement
<1>2. /\ Cardinality(Known(conns)) \in Nat /\ MaxSessions \in Nat
      /\ Cardinality(Known(conns) \cup {d}) <= MaxSessions
  <2>1. Cardinality(Known(conns)) \in Nat
    BY FS_CardinalityType
  <2>2. d \in Known(conns) \/ Cardinality(Known(conns)) < MaxSessions
    BY DEF HasRoom, Known
  <2> QED BY <1>1, <2>1, <2>2, LinkAssumption
<1>3. /\ IsFiniteSet(Known(others))
      /\ Cardinality(Known(others)) <= Cardinality(Known(conns) \cup {d})
  BY <1>1, FS_Subset
<1>4. Cardinality(Known(others)) \in Nat /\ Cardinality(Known(conns) \cup {d}) \in Nat
  BY <1>1, <1>3, FS_CardinalityType
<1> QED BY <1>2, <1>3, <1>4

LEMMA FewerKnown ==
    ASSUME NEW S, NEW T, IsFiniteSet(S), Cardinality(S) <= MaxSessions, T \subseteq S
    PROVE  IsFiniteSet(T) /\ Cardinality(T) <= MaxSessions
<1>1. IsFiniteSet(T) /\ Cardinality(T) <= Cardinality(S)
  BY FS_Subset
<1>2. Cardinality(T) \in Nat /\ Cardinality(S) \in Nat
  BY <1>1, FS_CardinalityType
<1> QED BY <1>1, <1>2, LinkAssumption

LEMMA SilentAreDropped ==
    ASSUME NEW conns \in [Devices -> {None} \cup Connected], NEW silent \in SUBSET Devices
    PROVE  /\ Without(conns, silent) \in [Devices -> {None} \cup Connected]
           /\ Known(Without(conns, silent)) \subseteq Known(conns)
<1> QED BY DEF Without, Known

LEMMA ResumedConnections ==
    ASSUME Typed, NEW m \in Message
    PROVE  /\ Resumed(m) \in [Devices -> {None} \cup Connected]
           /\ Known(Resumed(m)) \subseteq Known(connections) \cup {m.device}
<1>1. NewConnection(m) \in Connected
  BY MessageFields DEF NewConnection, Connected
<1>2. connections \in [Devices -> {None} \cup Connected] /\ m.device \in Devices
  BY MessageFields DEF Typed, TypeOK, Connected
<1> QED BY <1>1, <1>2 DEF Resumed, Known

LEMMA QueueTypes ==
    ASSUME NEW queue \in Seq(Item), Len(queue) <= QueueLimit
    PROVE  /\ \A d \in Devices : Superseded(queue, d) \in Seq(Item) /\ Len(Superseded(queue, d)) = Len(queue)
           /\ \A d \in Devices : \A k \in DOMAIN queue :
                 Superseded(queue, d)[k] \in Item /\ Superseded(queue, d)[k].message = queue[k].message
           /\ \A item \in Item : Enqueued(queue, item) \in Seq(Item) /\ Len(Enqueued(queue, item)) <= QueueLimit
<1>1. ASSUME NEW item \in Item
      PROVE  [item EXCEPT !.newest = FALSE] \in Item /\ [item EXCEPT !.newest = FALSE].message = item.message
  BY DEF Item
<1>2. ASSUME NEW d \in Devices
      PROVE  /\ Superseded(queue, d) \in Seq(Item) /\ Len(Superseded(queue, d)) = Len(queue)
             /\ \A k \in DOMAIN queue :
                  Superseded(queue, d)[k] \in Item /\ Superseded(queue, d)[k].message = queue[k].message
  <2>1. DOMAIN queue = 1 .. Len(queue) /\ Len(queue) \in Nat /\ \A k \in 1 .. Len(queue) : queue[k] \in Item
    BY ElementOfSeq
  <2>2. \A k \in DOMAIN queue :
           Superseded(queue, d)[k] \in Item /\ Superseded(queue, d)[k].message = queue[k].message
    BY <1>1, <2>1 DEF Superseded
  <2>3. Superseded(queue, d) \in [1 .. Len(queue) -> Item]
    BY <2>1, <2>2 DEF Superseded
  <2> QED BY <2>1, <2>2, <2>3
<1>3. ASSUME NEW item \in Item
      PROVE  Enqueued(queue, item) \in Seq(Item) /\ Len(Enqueued(queue, item)) <= QueueLimit
  <2>1. CASE Len(queue) < QueueLimit
    <3>1. Append(queue, item) \in Seq(Item) /\ Len(Append(queue, item)) = Len(queue) + 1 /\ Len(queue) \in Nat
      OBVIOUS
    <3> QED BY <2>1, <3>1, LinkAssumption DEF Enqueued
  <2>2. CASE ~(Len(queue) < QueueLimit)
    BY <2>2 DEF Enqueued
  <2> QED BY <2>1, <2>2
<1> QED BY <1>2, <1>3

-----------------------------------------------------------------------------
(* Types and limits *)

LEMMA TypedInit == Init => Typed
<1> SUFFICES ASSUME Init PROVE Typed
  OBVIOUS
<1> USE LinkAssumption DEF Init
<1>1. 0 \in Views /\ \A d \in Devices : 0 \in Boots
  <2>1. \A d \in Devices : 0 \in 0 .. MaxBoot[d]
    OBVIOUS
  <2>2. 0 \in 0 .. MaxView
    OBVIOUS
  <2>3. 0 \in Views
    BY <2>2, Zenon DEF Views
  <2>4. \A d \in Devices : 0 \in Boots
    BY <2>1, BootsAreNumbers, Zenon
  <2> QED BY <2>3, <2>4
<1>2. /\ Known(sessions) = {} /\ Known(connections) = {}
      /\ IsFiniteSet({}) /\ Cardinality({}) = 0
  BY FS_EmptySet DEF Known
<1>3. box \in [Devices -> [boot : Boots, shows : Views \cup {None}]]
  BY <1>1
<1>4. <<>> \in Seq(Message) /\ <<>> \in Seq(Item) /\ Len(<<>>) = 0
  OBVIOUS
<1>5. /\ link \in [Devices -> Seq(Message)]
      /\ sessions \in [Devices -> Boots \cup {None}]
      /\ connections \in [Devices -> {None} \cup [boot : Boots, frame : Views \cup {None}]]
      /\ view \in [Devices -> Views]
  BY <1>1, <1>4
<1>6. /\ processed \in [Commands -> {None, "accepted", "rejected"}]
      /\ acted \in [Commands -> Nat]
      /\ acks \in [Commands -> SUBSET {"accepted", "rejected"}]
      /\ receipts \in [Commands -> AllPlaces \cup {None}]
  OBVIOUS
<1>9. place \in [Devices -> AllPlaces \cup {None}]
  BY DEF AllPlaces
<1>10. moves \in 0 .. MaxMoves
  OBVIOUS
<1>7. inbox \in Seq(Item) /\ Len(inbox) <= QueueLimit /\ restarts \in 0 .. MaxRestarts
  BY <1>4
<1>8. Cardinality(Known(sessions)) <= MaxSessions /\ Cardinality(Known(connections)) <= MaxSessions
  <2>1. Cardinality(Known(sessions)) = 0 /\ Cardinality(Known(connections)) = 0
    BY <1>2, Zenon
  <2> QED BY <2>1
<1> QED BY <1>2, <1>3, <1>5, <1>6, <1>7, <1>8, <1>9, <1>10 DEF Typed, TypeOK, Known

LEMMA SendTypes ==
    ASSUME Typed, NEW d \in Devices, NEW leaf, NEW boot, NEW c, NEW token, Send(d, leaf, boot, c, token),
           [leaf |-> leaf, device |-> d, boot |-> boot, command |-> c, token |-> token] \in Message
    PROVE  /\ link' \in [Devices -> Seq(Message)]
           /\ link'[d] = Append(link[d], [leaf |-> leaf, device |-> d, boot |-> boot,
                                          command |-> c, token |-> token])
           /\ \A e \in Devices : e # d => link'[e] = link[e]
<1>1. link \in [Devices -> Seq(Message)]
  BY DEF Typed, TypeOK
<1>2. Append(link[d], [leaf |-> leaf, device |-> d, boot |-> boot, command |-> c, token |-> token]) \in Seq(Message)
  BY <1>1
<1> QED BY <1>1, <1>2 DEF Send

LEMMA ConnectTyped == ASSUME Typed, NEW d \in Devices, Connect(d) PROVE Typed'
<1>1. box[d].boot + 1 \in Boots
  <2>1. box[d].boot \in Nat /\ box[d].boot < MaxBoot[d] /\ MaxBoot[d] \in Nat
    BY LinkAssumption, BootsAreNumbers DEF Typed, TypeOK, Connect
  <2>2. box[d].boot + 1 \in 0 .. MaxBoot[d]
    BY <2>1
  <2> QED BY <2>2, BootsAreNumbers
<1>2. [leaf |-> "hello", device |-> d, boot |-> box[d].boot + 1, command |-> None, token |-> None] \in Message
  BY <1>1 DEF Message
<1>3. link' \in [Devices -> Seq(Message)]
  BY <1>2, SendTypes DEF Connect
<1>4. box' \in [Devices -> [boot : Boots, shows : Views \cup {None}]]
  <2>1. [boot |-> box[d].boot + 1, shows |-> None] \in [boot : Boots, shows : Views \cup {None}]
    BY <1>1
  <2> QED BY <2>1 DEF Connect, Typed, TypeOK
<1> QED BY <1>3, <1>4 DEF Typed, TypeOK, Connect, server, traffic, answers, placement, Known

LEMMA PingTyped == ASSUME Typed, NEW d \in Devices, Ping(d) PROVE Typed'
<1>1. [leaf |-> "presence", device |-> d, boot |-> box[d].boot, command |-> None, token |-> None] \in Message
  BY DEF Message, Typed, TypeOK
<1>2. link' \in [Devices -> Seq(Message)]
  BY <1>1, SendTypes DEF Ping
<1> QED BY <1>2 DEF Typed, TypeOK, Ping, server, traffic, answers, placement, Known

LEMMA PressTyped == ASSUME Typed, NEW d \in Devices, Press(d) PROVE Typed'
<1> PICK c \in Commands : /\ c[1] = d /\ c \notin pressed
                          /\ pressed' = pressed \cup {c}
                          /\ Send(d, "command", box[d].boot, c, box[d].shows)
  BY DEF Press
<1>1. [leaf |-> "command", device |-> d, boot |-> box[d].boot, command |-> c, token |-> box[d].shows] \in Message
  <2>1. box[d].boot \in Boots /\ box[d].shows \in Views
    BY DEF Typed, TypeOK, Press
  <2> QED BY <2>1 DEF Message
<1>2. link' \in [Devices -> Seq(Message)]
  BY <1>1, SendTypes
<1> QED BY <1>2 DEF Typed, TypeOK, Press, server, traffic, answers, placement, Known

LEMMA HelloSessions ==
    ASSUME Typed, NEW m \in Message, ReceiveHello(m)
    PROVE  /\ sessions' \in [Devices -> Boots \cup {None}]
           /\ IsFiniteSet(Known(sessions')) /\ Cardinality(Known(sessions')) <= MaxSessions
           /\ sessions'[m.device] = m.boot
           /\ \A d \in Devices : d # m.device => sessions'[d] \in {sessions[d], None}
<1> DEFINE d == m.device
           K == Known(sessions)
<1>0. /\ d \in Devices /\ m.boot \in Boots /\ sessions \in [Devices -> Boots \cup {None}]
      /\ IsFiniteSet(K) /\ Cardinality(K) <= MaxSessions /\ Cardinality(K) \in Nat
  BY MessageFields, FS_CardinalityType DEF Typed, TypeOK, Known
<1>1. CASE /\ sessions[d] # None \/ Cardinality(K) < MaxSessions
           /\ sessions' = [sessions EXCEPT ![d] = m.boot]
  <2>1. Known(sessions') \subseteq K \cup {d}
    BY <1>0, <1>1 DEF Known
  <2>2. IsFiniteSet(K \cup {d}) /\ Cardinality(K \cup {d}) <= MaxSessions
    <3>1. /\ IsFiniteSet(K \cup {d})
          /\ Cardinality(K \cup {d}) = IF d \in K THEN Cardinality(K) ELSE Cardinality(K) + 1
      BY <1>0, FS_AddElement
    <3>2. d \in K \/ Cardinality(K) < MaxSessions
      BY <1>0, <1>1 DEF Known
    <3> HIDE DEF K
    <3> QED BY <1>0, <3>1, <3>2, LinkAssumption
  <2>3. IsFiniteSet(Known(sessions')) /\ Cardinality(Known(sessions')) <= MaxSessions
    BY <2>1, <2>2, FewerKnown
  <2> QED BY <1>0, <1>1, <2>3
<1>2. CASE \E silent \in (SUBSET K) \ {{}} :
            sessions' = [e \in Devices |-> IF e = d THEN m.boot ELSE IF e \in silent THEN None ELSE sessions[e]]
  <2> PICK silent \in (SUBSET K) \ {{}} :
            sessions' = [e \in Devices |-> IF e = d THEN m.boot ELSE IF e \in silent THEN None ELSE sessions[e]]
    BY <1>2
  <2>0. silent # {} /\ silent \subseteq K
    OBVIOUS
  <2> PICK gone : gone \in silent
    BY <2>0
  <2>1. Known(sessions') \subseteq (K \ {gone}) \cup {d}
    BY <1>0 DEF Known
  <2>2. IsFiniteSet((K \ {gone}) \cup {d}) /\ Cardinality((K \ {gone}) \cup {d}) <= MaxSessions
    <3>1. IsFiniteSet(K \ {gone}) /\ Cardinality(K \ {gone}) = Cardinality(K) - 1
      BY <1>0, FS_RemoveElement
    <3>2. /\ IsFiniteSet((K \ {gone}) \cup {d})
          /\ Cardinality((K \ {gone}) \cup {d}) =
               IF d \in K \ {gone} THEN Cardinality(K \ {gone}) ELSE Cardinality(K \ {gone}) + 1
      BY <3>1, FS_AddElement
    <3> HIDE DEF K
    <3> QED BY <1>0, <3>1, <3>2, LinkAssumption
  <2>3. IsFiniteSet(Known(sessions')) /\ Cardinality(Known(sessions')) <= MaxSessions
    BY <2>1, <2>2, FewerKnown
  <2> QED BY <1>0, <2>3
<1> QED BY <1>1, <1>2 DEF ReceiveHello

\* What receive does to the link and to the inbox, message by message.
LEMMA ReceiveEffect ==
    ASSUME Typed, NEW d \in Devices, NEW acknowledged, Receive(d, acknowledged)
    PROVE  /\ link[d] # <<>> /\ Head(link[d]) \in Message
           /\ link' \in [Devices -> Seq(Message)]
           /\ link'[d] \in {link[d], Tail(link[d])} /\ \A e \in Devices : e # d => link'[e] = link[e]
           /\ inbox' \in Seq(Item) /\ Len(inbox') <= QueueLimit
           /\ \A k \in DOMAIN inbox' :
                \/ k \in DOMAIN inbox /\ inbox'[k].message = inbox[k].message
                \/ inbox'[k].message = Head(link[d])
<1>1. link \in [Devices -> Seq(Message)] /\ link[d] # <<>> /\ inbox \in Seq(Item) /\ Len(inbox) <= QueueLimit
  BY DEF Receive, Typed, TypeOK
<1>2. Head(link[d]) \in Message /\ Tail(link[d]) \in Seq(Message)
  BY <1>1
<1>3. /\ link' \in [Devices -> Seq(Message)]
      /\ link'[d] \in {link[d], Tail(link[d])} /\ \A e \in Devices : e # d => link'[e] = link[e]
  BY <1>1, <1>2 DEF Receive
<1> DEFINE m == Head(link[d])
           S == Superseded(inbox, d)
<1>4. /\ [message |-> m, newest |-> FALSE] \in Item /\ [message |-> m, newest |-> TRUE] \in Item
  BY <1>2 DEF Item
<1>5. \/ inbox' = inbox
      \/ inbox' = Enqueued(inbox, [message |-> m, newest |-> FALSE])
      \/ \E newest \in BOOLEAN : inbox' = Enqueued(S, [message |-> m, newest |-> newest])
  BY DEF Receive
<1>6. ASSUME NEW queue \in Seq(Item), NEW item \in Item, NEW k \in DOMAIN Enqueued(queue, item)
      PROVE  (k \in DOMAIN queue /\ Enqueued(queue, item)[k] = queue[k]) \/ Enqueued(queue, item)[k] = item
  <2>1. CASE Enqueued(queue, item) = queue
    BY <2>1
  <2>2. CASE Enqueued(queue, item) = Append(queue, item)
    BY <2>2
  <2> QED BY <2>1, <2>2 DEF Enqueued
<1>7. /\ S \in Seq(Item) /\ Len(S) <= QueueLimit /\ DOMAIN S = DOMAIN inbox
      /\ \A k \in DOMAIN inbox : S[k].message = inbox[k].message
  <2>1. DOMAIN S = DOMAIN inbox
    BY DEF Superseded
  <2> HIDE DEF S
  <2>2. /\ S \in Seq(Item) /\ Len(S) = Len(inbox)
        /\ \A k \in DOMAIN inbox : S[k].message = inbox[k].message
    BY <1>1, QueueTypes DEF S
  <2> QED BY <1>1, <2>1, <2>2
<1> HIDE DEF m, S
<1>8. CASE inbox' = inbox
  BY <1>1, <1>2, <1>3, <1>8
<1>9. CASE inbox' = Enqueued(inbox, [message |-> m, newest |-> FALSE])
  <2>1. inbox' \in Seq(Item) /\ Len(inbox') <= QueueLimit
    BY <1>1, <1>4, <1>9, QueueTypes
  <2>2. ASSUME NEW k \in DOMAIN inbox'
        PROVE (k \in DOMAIN inbox /\ inbox'[k].message = inbox[k].message) \/ inbox'[k].message = m
    BY <1>1, <1>4, <1>6, <1>9, <2>2
  <2> QED BY <1>1, <1>2, <1>3, <2>1, <2>2 DEF m
<1>10. ASSUME NEW newest \in BOOLEAN, inbox' = Enqueued(S, [message |-> m, newest |-> newest])
       PROVE  /\ inbox' \in Seq(Item) /\ Len(inbox') <= QueueLimit
              /\ \A k \in DOMAIN inbox' :
                   (k \in DOMAIN inbox /\ inbox'[k].message = inbox[k].message) \/ inbox'[k].message = m
  <2>0. [message |-> m, newest |-> newest] \in Item
    BY <1>4
  <2>1. inbox' \in Seq(Item) /\ Len(inbox') <= QueueLimit
    BY <1>7, <1>10, <2>0, QueueTypes
  <2>2. ASSUME NEW k \in DOMAIN inbox'
        PROVE (k \in DOMAIN inbox /\ inbox'[k].message = inbox[k].message) \/ inbox'[k].message = m
    BY <1>6, <1>7, <1>10, <2>0, <2>2
  <2> QED BY <2>1, <2>2
<1> QED BY <1>1, <1>2, <1>3, <1>5, <1>8, <1>9, <1>10 DEF m

LEMMA ReceiveTyped ==
    ASSUME Typed, NEW d \in Devices, NEW acknowledged, Receive(d, acknowledged) PROVE Typed'
<1>1. /\ link' \in [Devices -> Seq(Message)] /\ inbox' \in Seq(Item) /\ Len(inbox') <= QueueLimit
      /\ Head(link[d]) \in Message
  BY ReceiveEffect
<1>2. /\ sessions' \in [Devices -> Boots \cup {None}]
      /\ IsFiniteSet(Known(sessions')) /\ Cardinality(Known(sessions')) <= MaxSessions
  <2>1. CASE UNCHANGED sessions
    BY <2>1 DEF Typed, TypeOK, Known
  <2>2. CASE ReceiveHello(Head(link[d]))
    BY <1>1, <2>2, HelloSessions
  <2> QED BY <2>1, <2>2 DEF Receive
<1>3. late' \subseteq Commands
  BY DEF Receive, Waiting, Typed, TypeOK
<1> QED BY <1>1, <1>2, <1>3 DEF Receive, Typed, TypeOK, traffic, answers, placement, Known


LEMMA TakeTyped == ASSUME Typed, WorkTake PROVE Typed'
<1>1. inbox \in Seq(Item) /\ inbox # <<>> /\ Len(inbox) <= QueueLimit
  BY DEF WorkTake, Typed, TypeOK
<1>2. Head(inbox) \in Item /\ Tail(inbox) \in Seq(Item) /\ Len(Tail(inbox)) <= QueueLimit
  <2>1. Head(inbox) \in Item /\ Tail(inbox) \in Seq(Item) /\ Len(Tail(inbox)) = Len(inbox) - 1
        /\ Len(inbox) \in Nat
    BY <1>1
  <2> QED BY <1>1, <2>1, LinkAssumption
<1>3. Head(inbox).message \in Message
  BY <1>2 DEF Item
<1>4. working' \in Message \cup {None} /\ inbox' = Tail(inbox)
  BY <1>3 DEF WorkTake
<1> QED BY <1>2, <1>4 DEF WorkTake, Typed, TypeOK, traffic, answers, placement, Known

LEMMA ForgottenSessions ==
    ASSUME Typed, NEW m \in Message
    PROVE  /\ Forgotten(m) \in [Devices -> Boots \cup {None}]
           /\ \A d \in Devices : Forgotten(m)[d] \in {sessions[d], None}
           /\ IsFiniteSet(Known(Forgotten(m))) /\ Cardinality(Known(Forgotten(m))) <= MaxSessions
<1>1. sessions \in [Devices -> Boots \cup {None}]
  BY DEF Typed, TypeOK
<1>2. /\ Forgotten(m) \in [Devices -> Boots \cup {None}]
      /\ \A d \in Devices : Forgotten(m)[d] \in {sessions[d], None}
  BY <1>1 DEF Forgotten
<1>3. Known(Forgotten(m)) \subseteq Known(sessions)
  BY <1>2 DEF Known
<1> QED BY <1>2, <1>3, FewerKnown DEF Typed, TypeOK, Known

\* A step of the worker that paints: what is left to show of its types.
LEMMA PaintedTyped ==
    ASSUME Typed, NEW conns \in [Devices -> {None} \cup Connected],
           NEW pictures \in [Devices -> Views], NEW painted, Paint(conns, painted, pictures),
           IsFiniteSet(Known(conns)), Cardinality(Known(conns)) <= MaxSessions
    PROVE  /\ box' \in [Devices -> [boot : Boots, shows : Views \cup {None}]]
           /\ connections' \in [Devices -> {None} \cup [boot : Boots, frame : Views \cup {None}]]
           /\ IsFiniteSet(Known(connections')) /\ Cardinality(Known(connections')) <= MaxSessions
<1>1. box \in [Devices -> Boxes]
  BY DEF Typed, TypeOK, Boxes
<1>2. /\ box' \in [Devices -> Boxes]
      /\ connections' \in [Devices -> {None} \cup Connected]
      /\ Known(connections') \subseteq Known(conns)
  BY <1>1, Paints
<1> QED BY <1>2, FewerKnown DEF Boxes, Connected

LEMMA ConnectionTypes ==
    ASSUME Typed
    PROVE  /\ connections \in [Devices -> {None} \cup Connected] /\ Known(connections) \subseteq Devices
           /\ IsFiniteSet(Known(connections)) /\ Cardinality(Known(connections)) <= MaxSessions
           /\ view \in [Devices -> Views]
<1> QED BY DEF Typed, TypeOK, Connected, Known

LEMMA HelloTyped == ASSUME Typed, WorkHello PROVE Typed'
<1> PICK silent \in SUBSET Known(connections) :
         LET d == working.device
             kept == Without(connections, silent)
         IN  \/ /\ HasRoom(kept, d)
                /\ Paint([kept EXCEPT ![d] = NewConnection(working)], {d}, view)
                /\ UNCHANGED sessions
             \/ /\ connections' = kept
                /\ sessions' = Forgotten(working)
                /\ UNCHANGED box
  BY DEF WorkHello
<1> DEFINE d == working.device
           kept == Without(connections, silent)
           next == [kept EXCEPT ![d] = NewConnection(working)]
<1>1. working \in Message /\ d \in Devices /\ NewConnection(working) \in Connected
  <2>1. working \in Message
    BY DEF WorkHello, Typed, TypeOK
  <2> QED BY <2>1, MessageFields DEF NewConnection, Connected
<1>2. /\ kept \in [Devices -> {None} \cup Connected]
      /\ IsFiniteSet(Known(kept)) /\ Cardinality(Known(kept)) <= MaxSessions
  <2>1. silent \in SUBSET Devices
    BY DEF Known
  <2> QED BY <2>1, ConnectionTypes, SilentAreDropped, FewerKnown
<1>3. UNCHANGED <<pressed, link, inbox, traffic, late, placement, restarts>> /\ working' = None
  BY DEF WorkHello
<1>4. CASE HasRoom(kept, d) /\ Paint(next, {d}, view) /\ UNCHANGED sessions
  <2>1. next \in [Devices -> {None} \cup Connected] /\ Known(next) \subseteq Known(kept) \cup {d}
    <3> HIDE DEF kept, d
    <3> QED BY <1>1, <1>2 DEF Known
  <2>2. IsFiniteSet(Known(next)) /\ Cardinality(Known(next)) <= MaxSessions
    BY <1>1, <1>2, <1>4, <2>1, RoomForOne
  <2>3. /\ box' \in [Devices -> [boot : Boots, shows : Views \cup {None}]]
        /\ connections' \in [Devices -> {None} \cup [boot : Boots, frame : Views \cup {None}]]
        /\ IsFiniteSet(Known(connections')) /\ Cardinality(Known(connections')) <= MaxSessions
    <3> HIDE DEF next
    <3> QED BY <1>4, <2>1, <2>2, PaintedTyped, ConnectionTypes
  <2> QED BY <1>3, <1>4, <2>3 DEF Typed, TypeOK, traffic, answers, placement, Known
<1>5. CASE connections' = kept /\ sessions' = Forgotten(working) /\ UNCHANGED box
  <2>1. /\ sessions' \in [Devices -> Boots \cup {None}]
        /\ IsFiniteSet(Known(sessions')) /\ Cardinality(Known(sessions')) <= MaxSessions
    BY <1>1, <1>5, ForgottenSessions
  <2>2. /\ connections' \in [Devices -> {None} \cup Connected]
        /\ IsFiniteSet(Known(connections')) /\ Cardinality(Known(connections')) <= MaxSessions
    BY <1>2, <1>5
  <2> QED BY <1>3, <1>5, <2>1, <2>2 DEF Typed, TypeOK, traffic, answers, placement, Known, Connected
<1> QED BY <1>4, <1>5

LEMMA RefusedTyped == ASSUME Typed, WorkRefused PROVE Typed'
<1>1. working \in Message
  BY DEF WorkRefused, Typed, TypeOK
<1>2. /\ sessions' \in [Devices -> Boots \cup {None}]
      /\ IsFiniteSet(Known(sessions')) /\ Cardinality(Known(sessions')) <= MaxSessions
  BY <1>1, ForgottenSessions DEF WorkRefused
<1> QED BY <1>2 DEF WorkRefused, Typed, TypeOK, traffic, answers, placement, Known

\* The connections with the one of the message let in again.
LEMMA ResumedRoom ==
    ASSUME Typed, NEW m \in Message, HasRoom(connections, m.device)
    PROVE  /\ Resumed(m) \in [Devices -> {None} \cup Connected]
           /\ IsFiniteSet(Known(Resumed(m))) /\ Cardinality(Known(Resumed(m))) <= MaxSessions
<1> QED BY ResumedConnections, ConnectionTypes, RoomForOne, MessageFields

LEMMA PresenceTyped == ASSUME Typed, WorkPresence PROVE Typed'
<1>1. working \in Message
  BY DEF WorkPresence, Typed, TypeOK
<1>2. /\ Resumed(working) \in [Devices -> {None} \cup Connected]
      /\ IsFiniteSet(Known(Resumed(working))) /\ Cardinality(Known(Resumed(working))) <= MaxSessions
  BY <1>1, ResumedRoom DEF WorkPresence
<1>3. /\ box' \in [Devices -> [boot : Boots, shows : Views \cup {None}]]
      /\ connections' \in [Devices -> {None} \cup [boot : Boots, frame : Views \cup {None}]]
      /\ IsFiniteSet(Known(connections')) /\ Cardinality(Known(connections')) <= MaxSessions
  BY <1>2, PaintedTyped, ConnectionTypes DEF WorkPresence
<1> QED BY <1>3 DEF WorkPresence, Typed, TypeOK, traffic, answers, placement, Known

\* What a decision may do to the traffic.
LEMMA DecideEffect ==
    ASSUME Typed, NEW m \in Message, m.leaf = "command", NEW answer \in {"accepted", "rejected", "fault"},
           Decide(m, answer)
    PROVE  /\ view' \in [Devices -> Views] /\ \A d \in Devices : view[d] <= view'[d]
           /\ processed' \in [Commands -> {None, "accepted", "rejected"}]
           /\ receipts' \in [Commands -> AllPlaces \cup {None}] /\ acted' \in [Commands -> Nat]
<1>1. m.command \in Commands /\ view \in [Devices -> Views] /\ Views \subseteq Nat
  BY MessageFields, LinkAssumption DEF Typed, TypeOK, Views
<1>2. /\ processed \in [Commands -> {None, "accepted", "rejected"}]
      /\ receipts \in [Commands -> AllPlaces \cup {None}] /\ acted \in [Commands -> Nat]
      /\ place[m.device] \in AllPlaces \cup {None}
  BY MessageFields DEF Typed, TypeOK
<1>6. processed' \in [Commands -> {None, "accepted", "rejected"}]
  BY <1>1, <1>2 DEF Decide
<1>7. receipts' \in [Commands -> AllPlaces \cup {None}]
  BY <1>1, <1>2 DEF Decide
<1>5. \A d \in Devices : view[d] \in Nat
  BY <1>1
<1>3. CASE UNCHANGED view
  <2>1. view' \in [Devices -> Views] /\ \A d \in Devices : view[d] <= view'[d]
    BY <1>1, <1>3, <1>5
  <2>2. acted' \in [Commands -> Nat]
    BY <1>1, <1>2 DEF Decide
  <2> QED BY <1>6, <1>7, <2>1, <2>2
<1>4. CASE \E changed \in SUBSET {e \in Devices : view[e] < MaxView} :
              view' = [e \in Devices |-> IF e \in changed THEN view[e] + 1 ELSE view[e]]
  <2> PICK changed \in SUBSET {e \in Devices : view[e] < MaxView} :
              view' = [e \in Devices |-> IF e \in changed THEN view[e] + 1 ELSE view[e]]
    BY <1>4
  <2>1. \A e \in Devices : view[e] < MaxView => view[e] + 1 \in Views
    BY <1>1, LinkAssumption DEF Views
  <2>2. view' \in [Devices -> Views]
    BY <1>1, <2>1
  <2>3. ASSUME NEW e \in Devices PROVE view[e] <= view'[e]
    <3>1. view'[e] \in {view[e], view[e] + 1}
      OBVIOUS
    <3> QED BY <1>5, <3>1
  <2>4. acted' \in [Commands -> Nat]
    BY <1>1, <1>2 DEF Decide
  <2> QED BY <1>6, <1>7, <2>2, <2>3, <2>4
<1> QED BY <1>3, <1>4 DEF Decide, Pictured

LEMMA CommandTyped == ASSUME Typed, WorkCommand PROVE Typed'
<1>1. working \in Message /\ working.leaf = "command" /\ working.command \in Commands
  BY MessageFields DEF WorkCommand, Typed, TypeOK
<1>2. /\ Resumed(working) \in [Devices -> {None} \cup Connected]
      /\ IsFiniteSet(Known(Resumed(working))) /\ Cardinality(Known(Resumed(working))) <= MaxSessions
  BY <1>1, ResumedRoom DEF WorkCommand
<1> PICK answer \in {"accepted", "rejected", "fault"} :
        /\ Decide(working, answer)
        /\ acks' = [acks EXCEPT ![working.command] = @ \cup ({answer} \ {"fault"})]
  BY DEF WorkCommand
<1>3. /\ view' \in [Devices -> Views]
      /\ processed' \in [Commands -> {None, "accepted", "rejected"}]
      /\ receipts' \in [Commands -> AllPlaces \cup {None}] /\ acted' \in [Commands -> Nat]
  BY <1>1, DecideEffect
<1>4. acks' \in [Commands -> SUBSET {"accepted", "rejected"}]
  BY <1>1 DEF Typed, TypeOK
<1> PICK silent \in SUBSET (Known(connections) \ {working.device}) :
        Paint(Without(Resumed(working), silent), Devices, view')
  BY DEF WorkCommand
<1>5. /\ Without(Resumed(working), silent) \in [Devices -> {None} \cup Connected]
      /\ IsFiniteSet(Known(Without(Resumed(working), silent)))
      /\ Cardinality(Known(Without(Resumed(working), silent))) <= MaxSessions
  <2>1. silent \in SUBSET Devices
    BY DEF Known
  <2> QED BY <1>2, <2>1, SilentAreDropped, FewerKnown
<1>6. /\ box' \in [Devices -> [boot : Boots, shows : Views \cup {None}]]
      /\ connections' \in [Devices -> {None} \cup [boot : Boots, frame : Views \cup {None}]]
      /\ IsFiniteSet(Known(connections')) /\ Cardinality(Known(connections')) <= MaxSessions
  BY <1>3, <1>5, PaintedTyped
<1> QED BY <1>3, <1>4, <1>6 DEF WorkCommand, Typed, TypeOK, Known, placement

LEMMA TickTyped == ASSUME Typed, Tick PROVE Typed'
<1> PICK silent \in SUBSET Known(connections) : Paint(Without(connections, silent), Devices, view)
  BY DEF Tick
<1>1. /\ Without(connections, silent) \in [Devices -> {None} \cup Connected]
      /\ IsFiniteSet(Known(Without(connections, silent)))
      /\ Cardinality(Known(Without(connections, silent))) <= MaxSessions
  <2>1. silent \in SUBSET Devices
    BY DEF Known
  <2> QED BY <2>1, ConnectionTypes, SilentAreDropped, FewerKnown
<1>2. /\ box' \in [Devices -> [boot : Boots, shows : Views \cup {None}]]
      /\ connections' \in [Devices -> {None} \cup [boot : Boots, frame : Views \cup {None}]]
      /\ IsFiniteSet(Known(connections')) /\ Cardinality(Known(connections')) <= MaxSessions
  BY <1>1, PaintedTyped, ConnectionTypes
<1> QED BY <1>2 DEF Tick, Typed, TypeOK, traffic, answers, placement, Known

LEMMA ElsewhereTyped == ASSUME Typed, NEW d \in Devices, Elsewhere(d) PROVE Typed'
<1>1. view[d] + 1 \in Views
  BY LinkAssumption DEF Elsewhere, Typed, TypeOK, Views
<1>2. view' \in [Devices -> Views]
  BY <1>1 DEF Elsewhere, Typed, TypeOK
<1> QED BY <1>2 DEF Elsewhere, Typed, TypeOK, server, Known, placement, answers

LEMMA AssignTyped == ASSUME Typed, NEW d \in Devices, Assign(d) PROVE Typed'
<1>1. view' \in [Devices -> Views]
  <2>1. CASE view[d] < MaxView /\ view' = [view EXCEPT ![d] = @ + 1]
    <3>1. view[d] + 1 \in Views
      BY <2>1, LinkAssumption DEF Typed, TypeOK, Views
    <3> QED BY <2>1, <3>1 DEF Typed, TypeOK
  <2>2. CASE UNCHANGED view
    BY <2>2 DEF Typed, TypeOK
  <2> QED BY <2>1, <2>2 DEF Assign
<1>2. place' \in [Devices -> AllPlaces \cup {None}] /\ moved' \subseteq Commands
  BY DEF Assign, AllPlaces, Typed, TypeOK
<1>3. moves' \in 0 .. MaxMoves
  BY LinkAssumption DEF Assign, Typed, TypeOK
<1> QED BY <1>1, <1>2, <1>3 DEF Assign, Typed, TypeOK, server, answers, Known

LEMMA NewScopeTyped == ASSUME Typed, NewScope PROVE Typed'
<1>1. view' \in [Devices -> Views]
  <2>1. \A d \in Devices : view[d] + 1 \in Views
    BY LinkAssumption DEF NewScope, Typed, TypeOK, Views
  <2> QED BY <2>1 DEF NewScope
<1>2. /\ place' \in [Devices -> AllPlaces \cup {None}] /\ moved' \subseteq Commands
      /\ processed' \in [Commands -> {None, "accepted", "rejected"}]
      /\ receipts' \in [Commands -> AllPlaces \cup {None}]
  BY DEF NewScope, Typed, TypeOK
<1>3. moves' \in 0 .. MaxMoves
  BY LinkAssumption DEF NewScope, Typed, TypeOK
<1> QED BY <1>1, <1>2, <1>3 DEF NewScope, Typed, TypeOK, server, Known

LEMMA RestartTyped == ASSUME Typed, Restart PROVE Typed'
<1> USE LinkAssumption
<1>1. \A d \in Devices : view[d] + 1 \in Views
  BY DEF Restart, Typed, TypeOK, Views
<1>2. view' \in [Devices -> Views]
  BY <1>1 DEF Restart
<1>3. restarts' \in 0 .. MaxRestarts
  BY DEF Restart, Typed, TypeOK
<1>4. <<>> \in Seq(Item) /\ Len(<<>>) = 0
  OBVIOUS
<1>5. inbox' \in Seq(Item) /\ Len(inbox') <= QueueLimit
  <2>1. inbox' \in Seq(Item) /\ Len(inbox') = 0
    BY <1>4 DEF Restart
  <2> QED BY <2>1
<1>6. /\ Known(sessions') = {} /\ Known(connections') = {}
  BY DEF Restart, Known
<1>7. /\ IsFiniteSet(Known(sessions')) /\ Cardinality(Known(sessions')) <= MaxSessions
      /\ IsFiniteSet(Known(connections')) /\ Cardinality(Known(connections')) <= MaxSessions
  <2>1. {} \subseteq Known(sessions)
    OBVIOUS
  <2> QED BY <1>6, <2>1, FewerKnown DEF Typed, TypeOK, Known
<1>8. /\ sessions' \in [Devices -> Boots \cup {None}]
      /\ connections' \in [Devices -> {None} \cup [boot : Boots, frame : Views \cup {None}]]
      /\ processed' \in [Commands -> {None, "accepted", "rejected"}]
      /\ working' \in Message \cup {None}
  BY DEF Restart
<1> QED BY <1>2, <1>3, <1>5, <1>7, <1>8 DEF Restart, Typed, TypeOK, Known, placement

LEMMA TypedStep == ASSUME Typed, [Next]_vars PROVE Typed'
<1>1. ASSUME NEW d \in Devices, Connect(d) \/ Ping(d) \/ Press(d) \/ Elsewhere(d) \/ Assign(d) PROVE Typed'
  BY <1>1, ConnectTyped, PingTyped, PressTyped, ElsewhereTyped, AssignTyped
<1>2. ASSUME NEW d \in Devices, NEW acknowledged \in BOOLEAN, Receive(d, acknowledged) PROVE Typed'
  BY <1>2, ReceiveTyped
<1>3. CASE Worker
  BY <1>3, TakeTyped, HelloTyped, RefusedTyped, PresenceTyped, CommandTyped DEF Worker
<1>4. CASE Tick
  BY <1>4, TickTyped
<1>5. CASE Restart \/ NewScope
  BY <1>5, RestartTyped, NewScopeTyped
<1>6. CASE UNCHANGED vars
  BY <1>6 DEF vars, server, traffic, answers, placement, Typed, TypeOK, Known
<1> QED BY <1>1, <1>2, <1>3, <1>4, <1>5, <1>6 DEF Next

LEMMA AlwaysTyped == Spec => []Typed
<1>1. Typed /\ [Next]_vars => Typed'
  BY TypedStep
<1> QED BY <1>1, TypedInit, PTL DEF Spec

\* The types, and the two limits: neither the sessions that the network thread
\* knows nor the connections of the worker ever pass MAX_SESSIONS, and the inbox
\* never its maxsize, for any number of boxes.
THEOREM LimitsAreKept == Spec => []TypeOK
<1>1. Typed => TypeOK
  BY DEF Typed
<1> QED BY <1>1, AlwaysTyped, PTL

-----------------------------------------------------------------------------
(* The order of the connections, and where the messages are *)

\* Nothing of an earlier connection of the box than n is on its way or to come.
Past(d, n) ==
    /\ n <= box[d].boot
    /\ \A k \in DOMAIN link[d] : n <= link[d][k].boot

\* The link carries a box's connections in their order, and what the inbox holds
\* of a box is no newer than what the link does.
Ordered ==
    \A d \in Devices :
        /\ \A k \in DOMAIN link[d] :
             /\ link[d][k].device = d /\ link[d][k].boot <= box[d].boot
             /\ \A j \in 1 .. k : link[d][j].boot <= link[d][k].boot
        /\ \A i \in DOMAIN inbox : inbox[i].message.device = d => Past(d, inbox[i].message.boot)

\* The server has the message before it, in one place or another.
Around(m) ==
    \/ \E i \in DOMAIN inbox : inbox[i].message = m
    \/ working # None /\ working = m
    \/ \E d \in Devices : \E k \in DOMAIN link[d] : link[d][k] = m

\* A message a box sends in this step, of its present connection: of a press, the
\* key has not been pressed before and the token is the picture that is shown.
Sends(d, m) ==
    /\ link'[d] = Append(link[d], m) /\ m.device = d /\ m.boot = box'[d].boot
    /\ UNCHANGED <<view, processed, receipts, acted, acks, inbox, working, sessions, late, placement>>
    /\ \A e \in Devices : e # d => link'[e] = link[e]
    /\ m.leaf = "command" =>
          /\ m.command[1] = d /\ m.command \notin pressed /\ m.command \in pressed'
          /\ box[d].shows # None /\ m.token = box[d].shows

LEMMA LinkTypes ==
    ASSUME Typed
    PROVE  /\ link \in [Devices -> Seq(Message)]
           /\ \A d \in Devices : /\ DOMAIN link[d] = 1 .. Len(link[d]) /\ Len(link[d]) \in Nat
                                 /\ \A k \in DOMAIN link[d] : link[d][k] \in Message /\ link[d][k].boot \in Nat
                                 /\ box[d].boot \in Nat
           /\ DOMAIN inbox = 1 .. Len(inbox)
           /\ \A i \in DOMAIN inbox : inbox[i].message \in Message /\ inbox[i].message.boot \in Nat
<1>1. link \in [Devices -> Seq(Message)] /\ inbox \in Seq(Item)
  BY DEF Typed, TypeOK
<1>2. ASSUME NEW d \in Devices
      PROVE  /\ DOMAIN link[d] = 1 .. Len(link[d]) /\ Len(link[d]) \in Nat
             /\ \A k \in DOMAIN link[d] : link[d][k] \in Message /\ link[d][k].boot \in Nat
             /\ box[d].boot \in Nat
  <2>1. link[d] \in Seq(Message)
    BY <1>1
  <2>2. DOMAIN link[d] = 1 .. Len(link[d]) /\ Len(link[d]) \in Nat
        /\ \A k \in DOMAIN link[d] : link[d][k] \in Message
    BY <2>1, ElementOfSeq
  <2>3. box[d].boot \in Nat
    BY BootsAreNumbers DEF Typed, TypeOK
  <2> QED BY <2>2, <2>3, MessageFields
<1>3. /\ DOMAIN inbox = 1 .. Len(inbox)
      /\ \A i \in DOMAIN inbox : inbox[i] \in Item
  BY <1>1, ElementOfSeq
<1>4. \A i \in DOMAIN inbox : inbox[i].message \in Message
  BY <1>3 DEF Item
<1> QED BY <1>1, <1>2, <1>3, <1>4, MessageFields

LEMMA ConnectSends ==
    ASSUME Typed, NEW d \in Devices, Connect(d)
    PROVE  /\ \E m \in Message : Sends(d, m) /\ m.leaf = "hello"
           /\ box'[d].boot = box[d].boot + 1 /\ box'[d].shows = None
           /\ \A e \in Devices : e # d => box'[e] = box[e]
<1> DEFINE m == [leaf |-> "hello", device |-> d, boot |-> box[d].boot + 1, command |-> None, token |-> None]
<1>1. box[d].boot + 1 \in Boots
  <2>1. box[d].boot \in Nat /\ box[d].boot < MaxBoot[d] /\ MaxBoot[d] \in Nat
    BY LinkAssumption, BootsAreNumbers DEF Typed, TypeOK, Connect
  <2>2. box[d].boot + 1 \in 0 .. MaxBoot[d]
    BY <2>1
  <2> QED BY <2>2, BootsAreNumbers
<1>2. m \in Message
  BY <1>1 DEF Message
<1>3. /\ link'[d] = Append(link[d], m) /\ \A e \in Devices : e # d => link'[e] = link[e]
  BY <1>2, SendTypes DEF Connect
<1>4. /\ box'[d].boot = box[d].boot + 1 /\ box'[d].shows = None
      /\ \A e \in Devices : e # d => box'[e] = box[e]
  BY DEF Connect, Typed, TypeOK
<1>5. m.leaf = "hello" /\ m.device = d /\ m.boot = box'[d].boot
  BY <1>4
<1> HIDE DEF m
<1>6. Sends(d, m)
  BY <1>3, <1>5 DEF Sends, Connect, server, traffic, answers, placement
<1> QED BY <1>2, <1>4, <1>5, <1>6

LEMMA PingSends ==
    ASSUME Typed, NEW d \in Devices, Ping(d)
    PROVE  (\E m \in Message : Sends(d, m) /\ m.leaf = "presence") /\ box' = box
<1> DEFINE m == [leaf |-> "presence", device |-> d, boot |-> box[d].boot, command |-> None, token |-> None]
<1>1. m \in Message
  BY DEF Message, Typed, TypeOK
<1>2. link'[d] = Append(link[d], m) /\ \A e \in Devices : e # d => link'[e] = link[e]
  BY <1>1, SendTypes DEF Ping
<1>3. m.leaf = "presence" /\ m.device = d /\ m.boot = box'[d].boot
  BY DEF Ping
<1> HIDE DEF m
<1>4. Sends(d, m)
  BY <1>2, <1>3 DEF Sends, Ping, server, traffic, answers, placement
<1> QED BY <1>1, <1>3, <1>4 DEF Ping

LEMMA PressSends ==
    ASSUME Typed, NEW d \in Devices, Press(d)
    PROVE  (\E m \in Message : Sends(d, m) /\ m.leaf = "command") /\ box' = box
<1> PICK c \in Commands : /\ c[1] = d /\ c \notin pressed
                          /\ pressed' = pressed \cup {c}
                          /\ Send(d, "command", box[d].boot, c, box[d].shows)
  BY DEF Press
<1> DEFINE m == [leaf |-> "command", device |-> d, boot |-> box[d].boot, command |-> c, token |-> box[d].shows]
<1>1. m \in Message
  <2>1. box[d].boot \in Boots /\ box[d].shows \in Views
    BY DEF Typed, TypeOK, Press
  <2> QED BY <2>1 DEF Message
<1>2. link'[d] = Append(link[d], m) /\ \A e \in Devices : e # d => link'[e] = link[e]
  BY <1>1, SendTypes
<1>3. /\ m.leaf = "command" /\ m.device = d /\ m.boot = box'[d].boot /\ m.command = c /\ m.token = box[d].shows
  BY DEF Press
<1> HIDE DEF m
<1>4. Sends(d, m)
  BY <1>2, <1>3 DEF Sends, Press, server, traffic, answers, placement
<1> QED BY <1>1, <1>3, <1>4 DEF Press

\* The worker, the tick and the restart take no message of the boxes and give
\* none a new connection; the pictures they show are the ones the boxes should show.
Served == Worker \/ Tick \/ Restart \/ NewScope \/ \E d \in Devices : Elsewhere(d) \/ Assign(d)

LEMMA ServedBoxes ==
    ASSUME Typed, Served
    PROVE  /\ link' = link /\ pressed' = pressed /\ late' = late
           /\ \A d \in Devices :
                /\ box'[d].boot = box[d].boot
                /\ box'[d].shows = box[d].shows \/ box'[d].shows = view'[d]
                /\ view[d] <= view'[d]
                /\ sessions'[d] \in {sessions[d], None}
<1>1. /\ box \in [Devices -> Boxes] /\ view \in [Devices -> Views] /\ Views \subseteq Nat
      /\ connections \in [Devices -> {None} \cup Connected]
      /\ \A d \in Devices : view[d] \in Nat
  <2>1. Views \subseteq Nat
    BY LinkAssumption DEF Views
  <2> QED BY <2>1, ConnectionTypes DEF Typed, TypeOK, Boxes
<1>2. CASE WorkTake \/ WorkRefused
  <2>1. UNCHANGED <<box, view, link, pressed, late>>
    BY <1>2 DEF WorkTake, WorkRefused, traffic, answers, placement
  <2>2. ASSUME NEW d \in Devices PROVE sessions'[d] \in {sessions[d], None}
    <3>1. CASE WorkTake
      BY <3>1 DEF WorkTake
    <3>2. CASE WorkRefused
      <4>1. working \in Message
        BY <3>2 DEF WorkRefused, Typed, TypeOK
      <4> QED BY <3>2, <4>1, ForgottenSessions DEF WorkRefused
    <3> QED BY <1>2, <3>1, <3>2
  <2> QED BY <1>1, <2>1, <2>2
<1>3. CASE WorkHello
  <2>0. working \in Message /\ UNCHANGED <<view, link, pressed, late>>
    BY <1>3 DEF WorkHello, Typed, TypeOK, traffic, answers, placement
  <2> PICK silent \in SUBSET Known(connections) :
         LET d == working.device
             kept == Without(connections, silent)
         IN  \/ /\ HasRoom(kept, d)
                /\ Paint([kept EXCEPT ![d] = NewConnection(working)], {d}, view)
                /\ UNCHANGED sessions
             \/ /\ connections' = kept
                /\ sessions' = Forgotten(working)
                /\ UNCHANGED box
    BY <1>3 DEF WorkHello
  <2> DEFINE d == working.device
             kept == Without(connections, silent)
             next == [kept EXCEPT ![d] = NewConnection(working)]
  <2>1. CASE Paint(next, {d}, view) /\ UNCHANGED sessions
    <3>1. next \in [Devices -> {None} \cup Connected]
      <4>1. d \in Devices /\ NewConnection(working) \in Connected
        BY <2>0, MessageFields DEF NewConnection, Connected
      <4>2. kept \in [Devices -> {None} \cup Connected]
        <5>1. silent \in SUBSET Devices
          BY DEF Known
        <5> QED BY <1>1, <5>1, SilentAreDropped
      <4> HIDE DEF kept, d
      <4> QED BY <4>1, <4>2
    <3> HIDE DEF next
    <3> QED BY <1>1, <2>0, <2>1, <3>1, Paints
  <2>2. CASE sessions' = Forgotten(working) /\ UNCHANGED box
    BY <1>1, <2>0, <2>2, ForgottenSessions
  <2> QED BY <2>1, <2>2
<1>4. CASE WorkPresence
  <2>1. working \in Message /\ UNCHANGED <<view, link, pressed, late, sessions>>
    BY <1>4 DEF WorkPresence, Typed, TypeOK, traffic, answers, placement
  <2>2. Resumed(working) \in [Devices -> {None} \cup Connected]
    BY <2>1, ResumedConnections
  <2> QED BY <1>1, <1>4, <2>1, <2>2, Paints DEF WorkPresence
<1>5. CASE WorkCommand
  <2>1. working \in Message /\ working.leaf = "command" /\ UNCHANGED <<link, pressed, late, sessions>>
    BY <1>5 DEF WorkCommand, Typed, TypeOK
  <2>2. view' \in [Devices -> Views] /\ \A d \in Devices : view[d] <= view'[d]
    BY <1>5, <2>1, DecideEffect DEF WorkCommand
  <2> PICK silent \in SUBSET (Known(connections) \ {working.device}) :
        Paint(Without(Resumed(working), silent), Devices, view')
    BY <1>5 DEF WorkCommand
  <2>3. Without(Resumed(working), silent) \in [Devices -> {None} \cup Connected]
    <3>1. silent \in SUBSET Devices
      BY DEF Known
    <3> QED BY <2>1, <3>1, ResumedConnections, SilentAreDropped
  <2>4. \A d \in Devices : /\ box'[d].boot = box[d].boot
                           /\ box'[d].shows = box[d].shows \/ box'[d].shows = view'[d]
    BY <1>1, <2>2, <2>3, Paints
  <2> QED BY <2>1, <2>2, <2>4
<1>6. CASE Tick
  <2> PICK silent \in SUBSET Known(connections) : Paint(Without(connections, silent), Devices, view)
    BY <1>6 DEF Tick
  <2>1. Without(connections, silent) \in [Devices -> {None} \cup Connected]
    <3>1. silent \in SUBSET Devices
      BY DEF Known
    <3> QED BY <1>1, <3>1, SilentAreDropped
  <2>2. UNCHANGED <<view, link, pressed, late, sessions>>
    BY <1>6 DEF Tick, traffic, answers, placement
  <2> QED BY <1>1, <2>1, <2>2, Paints
<1>7. CASE Restart
  <2>1. UNCHANGED <<box, link, pressed, late>>
    BY <1>7 DEF Restart
  <2>2. ASSUME NEW d \in Devices PROVE view'[d] = view[d] + 1 /\ sessions'[d] = None
    BY <1>7 DEF Restart
  <2> QED BY <1>1, <2>1, <2>2
<1>8. ASSUME NEW e \in Devices, Elsewhere(e) PROVE
           /\ link' = link /\ pressed' = pressed /\ late' = late
           /\ \A d \in Devices :
                /\ box'[d].boot = box[d].boot
                /\ box'[d].shows = box[d].shows \/ box'[d].shows = view'[d]
                /\ view[d] <= view'[d]
                /\ sessions'[d] \in {sessions[d], None}
  <2>1. UNCHANGED <<box, link, pressed, late, sessions>>
    BY <1>8 DEF Elsewhere, server
  <2>2. ASSUME NEW d \in Devices PROVE view'[d] \in {view[d], view[d] + 1}
    BY <1>1, <1>8 DEF Elsewhere
  <2> QED BY <1>1, <2>1, <2>2
<1>9. ASSUME NEW e \in Devices, Assign(e) PROVE
           /\ link' = link /\ pressed' = pressed /\ late' = late
           /\ \A d \in Devices :
                /\ box'[d].boot = box[d].boot
                /\ box'[d].shows = box[d].shows \/ box'[d].shows = view'[d]
                /\ view[d] <= view'[d]
                /\ sessions'[d] \in {sessions[d], None}
  <2>1. UNCHANGED <<box, link, pressed, late, sessions>>
    BY <1>9 DEF Assign, server
  <2>2. ASSUME NEW d \in Devices PROVE view'[d] \in {view[d], view[d] + 1}
    BY <1>1, <1>9 DEF Assign
  <2> QED BY <1>1, <2>1, <2>2
<1>10. CASE NewScope
  <2>1. UNCHANGED <<box, link, pressed, late, sessions>>
    BY <1>10 DEF NewScope, server
  <2>2. ASSUME NEW d \in Devices PROVE view'[d] = view[d] + 1
    BY <1>10 DEF NewScope
  <2> QED BY <1>1, <2>1, <2>2
<1> QED BY <1>2, <1>3, <1>4, <1>5, <1>6, <1>7, <1>8, <1>9, <1>10 DEF Served, Worker


LEMMA ServedInbox ==
    ASSUME Typed, Served
    PROVE  /\ \A i \in DOMAIN inbox' : \E j \in DOMAIN inbox : inbox'[i] = inbox[j]
           /\ \/ working' = None
              \/ working' = working
              \/ \E i \in DOMAIN inbox : inbox[i].message = working' /\ Current(inbox[i])
<1>1. CASE WorkTake
  <2>1. /\ inbox \in Seq(Item) /\ inbox # <<>> /\ inbox' = Tail(inbox)
        /\ working' = IF Current(Head(inbox)) THEN Head(inbox).message ELSE None
    BY <1>1 DEF WorkTake, Typed, TypeOK
  <2>2. /\ Head(inbox) = inbox[1] /\ 1 \in DOMAIN inbox /\ Len(inbox) \in Nat
        /\ \A i \in DOMAIN Tail(inbox) : i + 1 \in DOMAIN inbox /\ Tail(inbox)[i] = inbox[i + 1]
    BY <2>1
  <2> QED BY <2>1, <2>2
<1>2. CASE Restart
  <2>1. DOMAIN inbox' = {} /\ working' = None
    BY <1>2 DEF Restart
  <2> QED BY <2>1
<1>3. CASE UNCHANGED inbox /\ working' \in {None, working}
  BY <1>3
<1>4. Worker => WorkTake \/ (UNCHANGED inbox /\ working' \in {None, working})
  BY DEF Worker, WorkHello, WorkRefused, WorkPresence, WorkCommand
<1>5. Tick \/ NewScope \/ (\E d \in Devices : Elsewhere(d) \/ Assign(d)) =>
         UNCHANGED inbox /\ working' \in {None, working}
  BY DEF Tick, NewScope, Elsewhere, Assign, server
<1> QED BY <1>1, <1>2, <1>3, <1>4, <1>5 DEF Served

LEMMA StepForms ==
    ASSUME Typed, [Next]_vars
    PROVE  \/ \E d \in Devices : Connect(d) \/ Ping(d) \/ Press(d)
           \/ \E d \in Devices, acknowledged \in BOOLEAN : Receive(d, acknowledged)
           \/ Served
           \/ UNCHANGED vars
<1> QED BY DEF Next, Served

LEMMA SendForms ==
    ASSUME Typed, NEW d \in Devices, Connect(d) \/ Ping(d) \/ Press(d)
    PROVE  /\ \E m \in Message : Sends(d, m)
           /\ \A e \in Devices : /\ box'[e].boot \in Nat /\ box[e].boot <= box'[e].boot
                                 /\ box'[e].shows = box[e].shows \/ box'[e].shows = None
<1>1. \A e \in Devices : box[e].boot \in Nat
  BY LinkTypes
<1>2. CASE Connect(d)
  <2>1. /\ \E m \in Message : Sends(d, m)
        /\ box'[d].boot = box[d].boot + 1 /\ box'[d].shows = None
        /\ \A e \in Devices : e # d => box'[e] = box[e]
    BY <1>2, ConnectSends
  <2>2. ASSUME NEW e \in Devices
        PROVE  /\ box'[e].boot \in Nat /\ box[e].boot <= box'[e].boot
               /\ box'[e].shows = box[e].shows \/ box'[e].shows = None
    <3>1. CASE e = d
      BY <1>1, <2>1, <3>1
    <3>2. CASE e # d
      <4>1. box'[e] = box[e]
        BY <2>1, <3>2
      <4>2. box[e].boot \in Nat
        BY <1>1
      <4> QED BY <4>1, <4>2
    <3> QED BY <3>1, <3>2
  <2> QED BY <2>1, <2>2
<1>3. CASE Ping(d) \/ Press(d)
  <2>1. (\E m \in Message : Sends(d, m)) /\ box' = box
    BY <1>3, PingSends, PressSends
  <2> QED BY <1>1, <2>1
<1> QED BY <1>2, <1>3

\* What has passed stays passed: a box only ever goes on to newer connections.
LEMMA PastStep ==
    ASSUME Typed, Ordered, [Next]_vars, NEW d \in Devices, NEW n \in Nat, Past(d, n)
    PROVE  Past(d, n)'
<1>0. /\ link[d] \in Seq(Message) /\ DOMAIN link[d] = 1 .. Len(link[d]) /\ Len(link[d]) \in Nat
      /\ box[d].boot \in Nat
  BY LinkTypes
<1>1. ASSUME NEW e \in Devices, Connect(e) \/ Ping(e) \/ Press(e) PROVE Past(d, n)'
  <2>1. /\ box'[d].boot \in Nat /\ box[d].boot <= box'[d].boot
    BY <1>1, SendForms
  <2>2. n <= box'[d].boot
    BY <1>0, <2>1 DEF Past
  <2> PICK m \in Message : Sends(e, m)
    BY <1>1, SendForms
  <2>3. CASE e # d
    BY <2>2, <2>3 DEF Sends, Past
  <2>4. CASE e = d
    <3>1. link'[d] = Append(link[d], m) /\ m.boot = box'[d].boot
      BY <2>4 DEF Sends
    <3>2. \A k \in DOMAIN link'[d] : link'[d][k] = m \/ (k \in DOMAIN link[d] /\ link'[d][k] = link[d][k])
      BY <1>0, <3>1
    <3> QED BY <2>2, <3>1, <3>2 DEF Past
  <2> QED BY <2>3, <2>4
<1>2. ASSUME NEW e \in Devices, NEW acknowledged \in BOOLEAN, Receive(e, acknowledged) PROVE Past(d, n)'
  <2>1. box' = box
    BY <1>2 DEF Receive
  <2>2. link[e] # <<>> /\ link'[e] \in {link[e], Tail(link[e])} /\ \A f \in Devices : f # e => link'[f] = link[f]
    BY <1>2, ReceiveEffect
  <2>3. CASE link'[d] = link[d]
    BY <2>1, <2>3 DEF Past
  <2>4. CASE link'[d] = Tail(link[d]) /\ link[d] # <<>>
    <3>1. \A k \in DOMAIN Tail(link[d]) : k + 1 \in DOMAIN link[d] /\ Tail(link[d])[k] = link[d][k + 1]
      BY <1>0, <2>4
    <3> QED BY <2>1, <2>4, <3>1 DEF Past
  <2> QED BY <2>2, <2>3, <2>4
<1>3. CASE Served
  BY <1>3, ServedBoxes DEF Past
<1>4. CASE UNCHANGED vars
  BY <1>4 DEF vars, placement, Past
<1> QED BY <1>1, <1>2, <1>3, <1>4, StepForms

LEMMA OldestFirst ==
    ASSUME Typed, Ordered, NEW d \in Devices, link[d] # <<>>
    PROVE  /\ Head(link[d]) \in Message /\ Head(link[d]).device = d /\ Past(d, Head(link[d]).boot)
           /\ \E k \in DOMAIN link[d] : link[d][k] = Head(link[d])
<1>1. /\ link[d] \in Seq(Message) /\ DOMAIN link[d] = 1 .. Len(link[d]) /\ Len(link[d]) \in Nat
  BY LinkTypes
<1>2. Head(link[d]) = link[d][1] /\ 1 \in DOMAIN link[d] /\ \A k \in DOMAIN link[d] : 1 \in 1 .. k
  BY <1>1
<1>3. link[d][1] \in Message
  BY <1>2, LinkTypes
<1> QED BY <1>2, <1>3 DEF Ordered, Past

LEMMA OrderedInit == Init => Ordered
<1> SUFFICES ASSUME Init PROVE Ordered
  OBVIOUS
<1>1. DOMAIN inbox = {} /\ \A d \in Devices : DOMAIN link[d] = {}
  BY DEF Init
<1> QED BY <1>1 DEF Ordered

\* Past, of the state after the step.
PastNext(d, n) ==
    /\ n <= box'[d].boot
    /\ \A k \in DOMAIN link'[d] : n <= link'[d][k].boot

LEMMA OrderedStep == ASSUME Typed, Ordered, [Next]_vars PROVE Ordered'
<1> SUFFICES ASSUME NEW d \in Devices
             PROVE  /\ \A k \in DOMAIN link'[d] :
                         /\ link'[d][k].device = d /\ link'[d][k].boot <= box'[d].boot
                         /\ \A j \in 1 .. k : link'[d][j].boot <= link'[d][k].boot
                    /\ \A i \in DOMAIN inbox' : inbox'[i].message.device = d => PastNext(d, inbox'[i].message.boot)
  BY Zenon DEF Ordered, Past, PastNext
<1>0. /\ link[d] \in Seq(Message) /\ DOMAIN link[d] = 1 .. Len(link[d]) /\ Len(link[d]) \in Nat
      /\ \A k \in DOMAIN link[d] : link[d][k].boot \in Nat
      /\ box[d].boot \in Nat
  BY LinkTypes
<1>1. \A n \in Nat : Past(d, n) => PastNext(d, n)
  <2> SUFFICES ASSUME NEW n \in Nat, Past(d, n) PROVE PastNext(d, n)
    OBVIOUS
  <2>1. Past(d, n)'
    BY PastStep
  <2> QED BY <2>1 DEF Past, PastNext
\* The inbox.
<1>2. ASSUME NEW i \in DOMAIN inbox', inbox'[i].message.device = d PROVE PastNext(d, inbox'[i].message.boot)
  <2>1. ASSUME NEW j \in DOMAIN inbox, inbox[j].message = inbox'[i].message PROVE PastNext(d, inbox'[i].message.boot)
    <3>1. inbox[j].message.boot \in Nat
      BY LinkTypes
    <3>2. Past(d, inbox[j].message.boot)
      BY <1>2, <2>1 DEF Ordered
    <3>3. PastNext(d, inbox[j].message.boot)
      BY <1>1, <3>1, <3>2
    <3> QED BY <2>1, <3>3
  <2>2. ASSUME NEW e \in Devices, link[e] # <<>>, inbox'[i].message = Head(link[e])
        PROVE  PastNext(d, inbox'[i].message.boot)
    <3>1. /\ Head(link[e]) \in Message /\ Head(link[e]).device = e /\ Past(e, Head(link[e]).boot)
      BY <2>2, OldestFirst
    <3>2. e = d /\ Head(link[e]).boot \in Nat
      BY <1>2, <2>2, <3>1, MessageFields
    <3>3. PastNext(d, Head(link[e]).boot)
      BY <1>1, <3>1, <3>2
    <3> QED BY <2>2, <3>3
  <2>3. ASSUME NEW e \in Devices, NEW acknowledged \in BOOLEAN, Receive(e, acknowledged)
        PROVE  PastNext(d, inbox'[i].message.boot)
    <3>1. link[e] # <<>> /\ \/ i \in DOMAIN inbox /\ inbox'[i].message = inbox[i].message
                            \/ inbox'[i].message = Head(link[e])
      BY <2>3, ReceiveEffect
    <3> QED BY <2>1, <2>2, <3>1
  <2>4. CASE Served
    BY <2>1, <2>4, ServedInbox
  <2>5. CASE inbox' = inbox
    BY <2>1, <2>5
  <2>6. ASSUME NEW e \in Devices, Connect(e) \/ Ping(e) \/ Press(e) PROVE inbox' = inbox
    BY <2>6, SendForms DEF Sends
  <2> QED BY <2>3, <2>4, <2>5, <2>6, StepForms DEF vars, placement, server
\* The link.
<1> DEFINE Sorted(l, b) == \A k \in DOMAIN l : /\ l[k].device = d /\ l[k].boot <= b
                                               /\ \A j \in 1 .. k : l[j].boot <= l[k].boot
<1>3. Sorted(link[d], box[d].boot)
  BY DEF Ordered
<1>4. Sorted(link'[d], box'[d].boot)
  <2>1. ASSUME NEW e \in Devices, Connect(e) \/ Ping(e) \/ Press(e) PROVE Sorted(link'[d], box'[d].boot)
    <3>1. box'[d].boot \in Nat /\ box[d].boot <= box'[d].boot
      BY <2>1, SendForms
    <3> PICK m \in Message : Sends(e, m)
      BY <2>1, SendForms
    <3>2. CASE e # d
      <4>1. link'[d] = link[d]
        BY <3>2 DEF Sends
      <4> QED BY <1>0, <1>3, <3>1, <4>1
    <3>3. CASE e = d
      <4>1. link'[d] = Append(link[d], m) /\ m.boot = box'[d].boot /\ m.device = d
        BY <3>3 DEF Sends
      <4>2. /\ DOMAIN link'[d] = 1 .. Len(link[d]) + 1 /\ link'[d][Len(link[d]) + 1] = m
            /\ \A k \in 1 .. Len(link[d]) : link'[d][k] = link[d][k]
        BY <1>0, <4>1
      <4>3. ASSUME NEW k \in DOMAIN link'[d]
            PROVE  /\ link'[d][k].device = d /\ link'[d][k].boot <= box'[d].boot
                   /\ \A j \in 1 .. k : link'[d][j].boot <= link'[d][k].boot
        <5>1. CASE k = Len(link[d]) + 1
          <6>1. link'[d][k] = m
            BY <4>2, <5>1
          <6>2. ASSUME NEW j \in 1 .. k PROVE link'[d][j].boot <= m.boot
            <7>1. CASE j = k
              BY <3>1, <4>1, <6>1, <7>1
            <7>2. CASE j # k
              <8>1. j \in 1 .. Len(link[d])
                BY <1>0, <5>1, <7>2
              <8>2. link'[d][j] = link[d][j] /\ link[d][j].boot \in Nat /\ link[d][j].boot <= box[d].boot
                BY <1>0, <1>3, <4>2, <8>1
              <8> QED BY <1>0, <3>1, <4>1, <8>2
            <7> QED BY <7>1, <7>2
          <6> QED BY <3>1, <4>1, <6>1, <6>2
        <5>2. CASE k # Len(link[d]) + 1
          <6>1. k \in 1 .. Len(link[d]) /\ \A j \in 1 .. k : j \in 1 .. Len(link[d])
            BY <1>0, <4>2, <5>2
          <6>2. link[d][k].boot \in Nat /\ box[d].boot \in Nat
            BY <1>0, <6>1
          <6>3. /\ link'[d][k] = link[d][k]
                /\ \A j \in 1 .. k : link'[d][j] = link[d][j]
            BY <4>2, <6>1
          <6>4. /\ link[d][k].device = d /\ link[d][k].boot <= box[d].boot
                /\ \A j \in 1 .. k : link[d][j].boot <= link[d][k].boot
            BY <1>0, <1>3, <6>1
          <6>5. link[d][k].boot <= box'[d].boot
            BY <3>1, <6>2, <6>4
          <6> QED BY <6>3, <6>4, <6>5
        <5> QED BY <5>1, <5>2
      <4> QED BY <4>3
    <3> QED BY <3>2, <3>3
  <2>2. ASSUME NEW e \in Devices, NEW acknowledged \in BOOLEAN, Receive(e, acknowledged)
        PROVE  Sorted(link'[d], box'[d].boot)
    <3>1. box' = box
      BY <2>2 DEF Receive
    <3>2. link[e] # <<>> /\ link'[e] \in {link[e], Tail(link[e])} /\ \A f \in Devices : f # e => link'[f] = link[f]
      BY <2>2, ReceiveEffect
    <3>3. CASE link'[d] = link[d]
      BY <1>3, <3>1, <3>3
    <3>4. CASE link'[d] = Tail(link[d]) /\ link[d] # <<>>
      <4>1. /\ DOMAIN Tail(link[d]) = 1 .. Len(link[d]) - 1
            /\ \A k \in 1 .. Len(link[d]) - 1 : k + 1 \in DOMAIN link[d] /\ Tail(link[d])[k] = link[d][k + 1]
        BY <1>0, <3>4
      <4>2. ASSUME NEW k \in DOMAIN Tail(link[d])
            PROVE  /\ Tail(link[d])[k].device = d /\ Tail(link[d])[k].boot <= box[d].boot
                   /\ \A j \in 1 .. k : Tail(link[d])[j].boot <= Tail(link[d])[k].boot
        <5>1. k + 1 \in DOMAIN link[d] /\ Tail(link[d])[k] = link[d][k + 1] /\ k \in Nat
          BY <1>0, <4>1
        <5>2. ASSUME NEW j \in 1 .. k PROVE j + 1 \in 1 .. k + 1 /\ Tail(link[d])[j] = link[d][j + 1]
          <6>1. j \in 1 .. Len(link[d]) - 1 /\ j + 1 \in 1 .. k + 1
            BY <1>0, <4>1
          <6> QED BY <4>1, <6>1
        <5> QED BY <1>3, <5>1, <5>2
      <4> QED BY <3>1, <3>4, <4>2
    <3> QED BY <3>2, <3>3, <3>4
  <2>3. CASE Served
    BY <1>3, <2>3, ServedBoxes
  <2>4. CASE UNCHANGED vars
    BY <1>3, <2>4 DEF vars, placement
  <2> QED BY <2>1, <2>2, <2>3, <2>4, StepForms
<1> QED BY <1>2, <1>4

-----------------------------------------------------------------------------
(* The presses and their answers *)

\* Of a press that was refused: it is so for good, or its box is in another place.
Excused(m) ==
    \/ m.command \in moved
    \/ processed[m.command] = "rejected"
    \/ m.token < view[m.device]
    \/ place[m.device] = None

\* A press is of a picture the box has shown, and a key is pressed once: however
\* often it is delivered, it is the same message.  One that has acted has changed
\* its box's picture, and one that was refused is Excused.
Presses ==
    /\ \A d \in Devices : box[d].shows # None => box[d].shows <= view[d]
    /\ \A m \in Message : Around(m) /\ m.leaf = "command" =>
         /\ m.command \in pressed /\ m.command[1] = m.device
         /\ m.token <= view[m.device]
         /\ acted[m.command] = 1 => m.token < view[m.device]
         /\ "rejected" \in acks[m.command] => Excused(m)
         /\ \A n \in Message : Around(n) /\ n.command = m.command => n = m

\* What is remembered of a press and what was answered agree with what it did; one
\* whose box has not moved has its receipt, for the place the box has.
Told(c) ==
    /\ acted[c] <= 1
    /\ receipts[c] # None => acted[c] = 1
    /\ acted[c] = 1 => c \in pressed /\ (c \in moved \/ (receipts[c] # None /\ receipts[c] = place[c[1]]))
    /\ processed[c] = "accepted" \/ "accepted" \in acks[c] => acted[c] = 1
    /\ processed[c] = "rejected" \/ "rejected" \in acks[c] => acted[c] = 0 \/ c \in moved
    /\ acks[c] # {} => c \in pressed

Decided == \A c \in Commands : Told(c)

LEMMA DecidedInit == Init => Decided
<1> SUFFICES ASSUME Init, NEW c \in Commands PROVE Told(c)
  BY DEF Decided
<1>1. acted[c] = 0 /\ receipts[c] = None /\ processed[c] = None /\ acks[c] = {}
  BY DEF Init
<1>2. None # "accepted" /\ None # "rejected"
  BY LinkAssumption
<1> QED BY <1>1, <1>2 DEF Told

\* The worker decides a press: the other presses are left alone, and this one is
\* told what is so.
LEMMA CommandEffect ==
    ASSUME Typed, Presses, Decided, WorkCommand, NEW c \in Commands
    PROVE  /\ Told(c)'
           /\ c # working.command => /\ acted'[c] = acted[c] /\ acks'[c] = acks[c]
                                     /\ processed'[c] = processed[c]
           /\ c = working.command =>
                /\ acted'[c] = 1 => working.token < view'[working.device]
                /\ "rejected" \in acks'[c] => \/ c \in moved' \/ processed'[c] = "rejected"
                                              \/ working.token < view'[working.device]
                                              \/ place'[working.device] = None
<1> DEFINE m == working
           d == m.device
<1>1. m \in Message /\ m.leaf = "command" /\ m.command \in Commands /\ d \in Devices /\ Around(m)
  BY MessageFields DEF WorkCommand, Typed, TypeOK, Around
<1>2. PICK answer \in {"accepted", "rejected", "fault"} :
        /\ Decide(m, answer)
        /\ acks' = [acks EXCEPT ![m.command] = @ \cup ({answer} \ {"fault"})]
  BY DEF WorkCommand
<1>3. /\ acks \in [Commands -> SUBSET {"accepted", "rejected"}] /\ acted \in [Commands -> Nat]
      /\ processed \in [Commands -> {None, "accepted", "rejected"}]
      /\ receipts \in [Commands -> AllPlaces \cup {None}]
      /\ pressed' = pressed /\ place' = place /\ moved' = moved
      /\ None # "accepted" /\ None # "rejected"
  BY LinkAssumption DEF Typed, TypeOK, WorkCommand, placement
<1>4. Told(c)
  BY DEF Decided
<1>5. /\ m.token \in Nat /\ view[d] \in Nat /\ view'[d] \in Nat /\ view[d] <= view'[d]
  <2>1. view \in [Devices -> Views] /\ view' \in [Devices -> Views] /\ view[d] <= view'[d]
    BY <1>1, <1>2, DecideEffect DEF Typed, TypeOK
  <2> QED BY <1>1, <2>1, MessageFields, LinkAssumption DEF Views
<1>6. /\ m.command \in pressed /\ m.command[1] = d
      /\ acted[m.command] = 1 => m.token < view[d]
      /\ "rejected" \in acks[m.command] => Excused(m)
  BY <1>1 DEF Presses
<1>7. CASE c # m.command
  <2>1. /\ acted'[c] = acted[c] /\ processed'[c] = processed[c] /\ receipts'[c] = receipts[c]
    <3>1. acted' = acted \/ acted' = [acted EXCEPT ![m.command] = @ + 1]
      BY <1>2 DEF Decide
    <3>2. \/ processed' = processed
          \/ \E a : processed' = [processed EXCEPT ![m.command] = a]
      BY <1>2 DEF Decide
    <3>3. receipts' = receipts \/ receipts' = [receipts EXCEPT ![m.command] = place[d]]
      BY <1>2 DEF Decide
    <3> QED BY <1>3, <1>7, <3>1, <3>2, <3>3
  <2>2. acks'[c] = acks[c]
    BY <1>2, <1>3, <1>7
  <2> QED BY <1>3, <1>4, <1>7, <2>1, <2>2 DEF Told
<1>8. CASE c = m.command
  <2>1. acks'[c] = acks[c] \cup ({answer} \ {"fault"})
    BY <1>2, <1>3, <1>8
  <2>2. acted[c] = 1 => m.token < view'[d]
    BY <1>5, <1>6, <1>8
  <2>3. "rejected" \in acks[c] => \/ c \in moved' \/ processed[c] = "rejected"
                                 \/ m.token < view'[d] \/ place'[d] = None
    BY <1>3, <1>5, <1>6, <1>8 DEF Excused
  <2>4. CASE place[d] = None /\ answer = "rejected" /\ UNCHANGED <<view, processed, receipts, acted>>
    <3>1. acted[c] = 0 \/ c \in moved
      BY <1>3, <1>4, <1>6, <1>8, <2>4 DEF Told
    <3> QED BY <1>3, <1>4, <1>6, <1>8, <2>1, <2>2, <2>4, <3>1 DEF Told
  <2>5. CASE /\ place[d] # None /\ Answered(c, place[d]) # None
             /\ answer = Answered(c, place[d]) /\ UNCHANGED <<view, processed, receipts, acted>>
    <3>1. CASE receipts[c] = None
      <4>1. answer = processed[c]
        BY <2>5, <3>1 DEF Answered
      <4> QED BY <1>3, <1>4, <1>6, <1>8, <2>1, <2>2, <2>3, <2>5, <4>1 DEF Told
    <3>2. CASE receipts[c] # None
      <4>1. /\ acted[c] = 1
            /\ IF receipts[c] = place[d] THEN answer = "accepted" ELSE answer = "rejected"
        BY <1>4, <2>5, <3>2 DEF Answered, Told
      <4> QED BY <1>3, <1>4, <1>6, <1>8, <2>1, <2>2, <2>3, <2>5, <4>1 DEF Told
    <3> QED BY <3>1, <3>2
  <2>6. CASE /\ place[d] # None /\ Answered(c, place[d]) = None
             /\ answer = "accepted" /\ m.token = view[d] /\ Pictured(d)
             /\ processed' = [processed EXCEPT ![c] = "accepted"]
             /\ receipts' = [receipts EXCEPT ![c] = place[d]]
             /\ acted' = [acted EXCEPT ![c] = @ + 1]
    <3>1. acted[c] = 0 /\ receipts[c] = None /\ processed[c] = None
      <4>1. acted[c] # 1 /\ acted[c] <= 1 /\ acted[c] \in Nat
        BY <1>3, <1>4, <1>5, <1>6, <1>8, <2>6 DEF Told
      <4>2. receipts[c] = None
        BY <1>4, <4>1 DEF Told
      <4> QED BY <2>6, <4>1, <4>2 DEF Answered
    <3>2. acted'[c] = 1 /\ processed'[c] = "accepted" /\ receipts'[c] = place[d]
      BY <1>3, <2>6, <3>1
    <3>3. "rejected" \in acks[c] => c \in moved
      BY <1>3, <1>5, <1>6, <1>8, <2>6, <3>1 DEF Excused
    <3>4. m.token < view'[d]
      <4>1. view'[d] = view[d] + 1
        BY <1>1, <2>6 DEF Pictured
      <4> QED BY <1>5, <2>6, <4>1
    <3> QED BY <1>3, <1>6, <1>8, <2>1, <2>6, <3>2, <3>3, <3>4 DEF Told
  <2>7. CASE /\ place[d] # None /\ Answered(c, place[d]) = None
             /\ answer = "rejected"
             /\ processed' = [processed EXCEPT ![c] = "rejected"]
             /\ UNCHANGED <<view, receipts, acted>>
    <3>1. receipts[c] = None /\ processed[c] = None
      <4>1. receipts[c] = place[d] => FALSE
        BY <1>3, <2>7 DEF Answered
      <4> QED BY <1>3, <2>7, <4>1 DEF Answered
    <3>2. processed'[c] = "rejected"
      BY <1>3, <2>7
    <3>3. acted[c] = 0 \/ c \in moved
      BY <1>3, <1>4, <3>1 DEF Told
    <3> QED BY <1>3, <1>4, <1>6, <1>8, <2>1, <2>2, <2>7, <3>1, <3>2, <3>3 DEF Told
  <2>8. CASE answer = "fault" /\ UNCHANGED <<view, processed, receipts, acted>>
    <3>1. acks'[c] = acks[c]
      BY <1>3, <2>1, <2>8
    <3> QED BY <1>3, <1>4, <1>8, <2>2, <2>3, <2>8, <3>1 DEF Told
  <2> QED BY <1>2, <1>8, <2>4, <2>5, <2>6, <2>7, <2>8 DEF Decide
<1> QED BY <1>7, <1>8

\* What no other step than the worker's, a restart and another scope touches.
Remembered == UNCHANGED <<answers, place, moved>> /\ pressed \subseteq pressed'

LEMMA OtherForms ==
    ASSUME Typed, [Next]_vars
    PROVE  \/ WorkCommand \/ Restart \/ NewScope \/ (\E d \in Devices : Assign(d)) \/ Remembered
<1>1. ASSUME NEW d \in Devices, Connect(d) \/ Ping(d) \/ Press(d) \/ Elsewhere(d) PROVE Remembered
  BY <1>1 DEF Connect, Ping, Press, Elsewhere, traffic, placement, Remembered
<1>2. ASSUME NEW d \in Devices, NEW acknowledged \in BOOLEAN, Receive(d, acknowledged) PROVE Remembered
  BY <1>2 DEF Receive, traffic, placement, Remembered
<1>3. Worker => WorkCommand \/ Remembered
  BY DEF Worker, WorkTake, WorkHello, WorkRefused, WorkPresence, traffic, placement, Remembered
<1>4. Tick \/ UNCHANGED vars => Remembered
  BY DEF Tick, vars, traffic, placement, Remembered
<1> QED BY <1>1, <1>2, <1>3, <1>4 DEF Next

LEMMA DecidedStep == ASSUME Typed, Presses, Decided, [Next]_vars PROVE Decided'
<1> SUFFICES ASSUME NEW c \in Commands PROVE Told(c)'
  BY DEF Decided
<1>1. Told(c) /\ c[1] \in Devices /\ None # "accepted" /\ None # "rejected"
  BY LinkAssumption DEF Decided
<1>2. CASE WorkCommand
  BY <1>2, CommandEffect
<1>3. CASE Restart
  <2>1. /\ processed'[c] = None /\ UNCHANGED <<pressed, receipts, acted, acks, place, moved>>
    BY <1>3 DEF Restart, placement
  <2> QED BY <1>1, <2>1 DEF Told
<1>4. CASE NewScope
  <2>1. /\ processed'[c] = None /\ UNCHANGED <<pressed, acted, acks>> /\ moved' = moved \cup pressed
        /\ receipts'[c] \in {receipts[c], None}
    BY <1>4 DEF NewScope
  <2> QED BY <1>1, <2>1 DEF Told
<1>5. ASSUME NEW d \in Devices, Assign(d) PROVE Told(c)'
  <2>1. /\ UNCHANGED <<pressed, processed, receipts, acted, acks>>
        /\ moved' = moved \cup {e \in pressed : e[1] = d}
        /\ c[1] # d => place'[c[1]] = place[c[1]]
    BY <1>1, <1>5 DEF Assign, answers, Typed, TypeOK
  <2> QED BY <1>1, <2>1 DEF Told
<1>6. CASE Remembered
  BY <1>1, <1>6 DEF Remembered, answers, Told
<1> QED BY <1>2, <1>3, <1>4, <1>5, <1>6, OtherForms

\* A message after a step was there before it, or has just been sent.
LEMMA AroundStep ==
    ASSUME Typed, [Next]_vars, NEW m \in Message, Around(m)'
    PROVE  Around(m) \/ \E d \in Devices : Sends(d, m)
<1>0. \A d \in Devices : link[d] \in Seq(Message) /\ DOMAIN link[d] = 1 .. Len(link[d]) /\ Len(link[d]) \in Nat
  BY LinkTypes
<1>1. ASSUME NEW e \in Devices, Connect(e) \/ Ping(e) \/ Press(e)
      PROVE  Around(m) \/ \E d \in Devices : Sends(d, m)
  <2> PICK n \in Message : Sends(e, n)
    BY <1>1, SendForms
  <2>1. /\ inbox' = inbox /\ working' = working /\ link'[e] = Append(link[e], n)
        /\ \A d \in Devices : d # e => link'[d] = link[d]
    BY DEF Sends
  <2>2. \A k \in DOMAIN link'[e] : link'[e][k] = n \/ (k \in DOMAIN link[e] /\ link'[e][k] = link[e][k])
    BY <1>0, <2>1
  <2> QED BY <2>1, <2>2 DEF Around
<1>2. ASSUME NEW e \in Devices, NEW acknowledged \in BOOLEAN, Receive(e, acknowledged) PROVE Around(m)
  <2>1. /\ link[e] # <<>> /\ link'[e] \in {link[e], Tail(link[e])} /\ \A d \in Devices : d # e => link'[d] = link[d]
        /\ \A i \in DOMAIN inbox' : \/ i \in DOMAIN inbox /\ inbox'[i].message = inbox[i].message
                                    \/ inbox'[i].message = Head(link[e])
    BY <1>2, ReceiveEffect
  <2>2. working' = working
    BY <1>2 DEF Receive
  <2>3. Head(link[e]) = link[e][1] /\ 1 \in DOMAIN link[e]
    BY <1>0, <2>1
  <2>4. \A k \in DOMAIN Tail(link[e]) : k + 1 \in DOMAIN link[e] /\ Tail(link[e])[k] = link[e][k + 1]
    BY <1>0, <2>1
  <2>5. \A d \in Devices : \A k \in DOMAIN link'[d] : \E j \in DOMAIN link[d] : link'[d][k] = link[d][j]
    BY <2>1, <2>4
  <2> QED BY <2>1, <2>2, <2>3, <2>5 DEF Around
<1>3. CASE Served
  <2>1. link' = link
    BY <1>3, ServedBoxes
  <2>2. /\ \A i \in DOMAIN inbox' : \E j \in DOMAIN inbox : inbox'[i] = inbox[j]
        /\ \/ working' = None
           \/ working' = working
           \/ \E i \in DOMAIN inbox : inbox[i].message = working'
    BY <1>3, ServedInbox
  <2> QED BY <2>1, <2>2 DEF Around
<1>4. CASE UNCHANGED vars
  BY <1>4 DEF vars, placement, server, Around
<1> QED BY <1>1, <1>2, <1>3, <1>4, StepForms

LEMMA PressesInit == Init => Presses
<1> SUFFICES ASSUME Init PROVE Presses
  OBVIOUS
<1>1. /\ DOMAIN inbox = {} /\ working = None /\ \A d \in Devices : DOMAIN link[d] = {} /\ box[d].shows = None
  BY DEF Init
<1>2. \A m \in Message : ~Around(m)
  BY <1>1 DEF Around
<1> QED BY <1>1, <1>2 DEF Presses

\* How a refusal, and an effect, last through a step.
LEMMA RefusalLasts ==
    ASSUME Typed, Presses, Decided, [Next]_vars, NEW m \in Message, Around(m), m.leaf = "command"
    PROVE  /\ acted'[m.command] = 1 => m.token < view'[m.device]
           /\ "rejected" \in acks'[m.command] => Excused(m)'
<1> DEFINE c == m.command
           d == m.device
<1>1. /\ c \in Commands /\ d \in Devices /\ c \in pressed /\ c[1] = d
      /\ m.token \in Nat /\ view[d] \in Nat
      /\ acted[c] = 1 => m.token < view[d]
      /\ m.token <= view[d]
      /\ "rejected" \in acks[c] =>
            c \in moved \/ processed[c] = "rejected" \/ m.token < view[d] \/ place[d] = None
  BY MessageFields, LinkAssumption DEF Views, Typed, TypeOK, Presses, Excused
<1>2. view'[d] \in Nat /\ view[d] <= view'[d]
  <2>1. Typed'
    BY TypedStep
  <2>2. view'[d] \in Nat
    BY <1>1, <2>1, LinkAssumption DEF Views, Typed, TypeOK
  <2>3. CASE Served
    BY <1>1, <2>2, <2>3, ServedBoxes
  <2>4. CASE view' = view
    BY <1>1, <2>4
  <2>5. ASSUME NEW e \in Devices, Connect(e) \/ Ping(e) \/ Press(e) PROVE view' = view
    BY <2>5, SendForms DEF Sends
  <2>6. ASSUME NEW e \in Devices, NEW acknowledged \in BOOLEAN, Receive(e, acknowledged) PROVE view' = view
    BY <2>6 DEF Receive, traffic
  <2> QED BY <2>2, <2>3, <2>4, <2>5, <2>6, StepForms DEF vars, traffic
<1> SUFFICES /\ acted'[c] = 1 => m.token < view'[d]
             /\ "rejected" \in acks'[c] =>
                   c \in moved' \/ processed'[c] = "rejected" \/ m.token < view'[d] \/ place'[d] = None
  BY DEF Excused
<1> HIDE DEF c, d
<1>3. CASE Remembered
  BY <1>1, <1>2, <1>3 DEF Remembered, answers
<1>4. CASE Restart
  <2>1. acks' = acks /\ acted' = acted /\ view'[d] = view[d] + 1
    BY <1>1, <1>4 DEF Restart
  <2> QED BY <1>1, <2>1
<1>5. CASE NewScope
  <2>1. acks' = acks /\ acted' = acted /\ view'[d] = view[d] + 1
    BY <1>1, <1>5 DEF NewScope
  <2> QED BY <1>1, <2>1
<1>6. ASSUME NEW e \in Devices, Assign(e)
      PROVE  /\ acted'[c] = 1 => m.token < view'[d]
             /\ "rejected" \in acks'[c] =>
                   c \in moved' \/ processed'[c] = "rejected" \/ m.token < view'[d] \/ place'[d] = None
  <2>1. /\ UNCHANGED <<processed, acted, acks>> /\ moved' = moved \cup {f \in pressed : f[1] = e}
        /\ d # e => place'[d] = place[d]
    BY <1>1, <1>6 DEF Assign, answers, Typed, TypeOK
  <2> QED BY <1>1, <1>2, <2>1
<1>7. CASE WorkCommand
  <2>1. working \in Message /\ Around(working) /\ working.leaf = "command" /\ working.command \in Commands
    BY <1>7, MessageFields DEF WorkCommand, Typed, TypeOK, Around
  <2>2. CASE working.command = c
    <3>1. working = m
      BY <1>1, <2>1, <2>2 DEF Presses, c
    <3> QED BY <1>1, <1>7, <2>2, <3>1, CommandEffect DEF c, d
  <2>3. CASE working.command # c
    <3>1. acted'[c] = acted[c] /\ acks'[c] = acks[c] /\ processed'[c] = processed[c]
      BY <1>1, <1>7, <2>3, CommandEffect
    <3>2. place' = place /\ moved' = moved
      BY <1>7 DEF WorkCommand, placement
    <3> QED BY <1>1, <1>2, <3>1, <3>2
  <2> QED BY <2>2, <2>3
<1> QED BY <1>3, <1>4, <1>5, <1>6, <1>7, OtherForms


LEMMA PressesStep == ASSUME Typed, Presses, Decided, [Next]_vars PROVE Presses'
<1>0. \A d \in Devices : view[d] \in Nat /\ view'[d] \in Nat
  <2>1. Typed'
    BY TypedStep
  <2> QED BY <2>1, LinkAssumption DEF Typed, TypeOK, Views
<1>1. ASSUME NEW d \in Devices
      PROVE  view[d] <= view'[d] /\ (box'[d].shows # None => box'[d].shows <= view'[d])
  <2>0. box[d].shows # None => box[d].shows \in Nat /\ box[d].shows <= view[d]
    BY LinkAssumption DEF Typed, TypeOK, Views, Presses
  <2>1. ASSUME NEW e \in Devices, Connect(e) \/ Ping(e) \/ Press(e)
        PROVE  view' = view /\ (box'[d].shows = box[d].shows \/ box'[d].shows = None)
    BY <2>1, SendForms DEF Sends
  <2>2. ASSUME NEW e \in Devices, NEW acknowledged \in BOOLEAN, Receive(e, acknowledged)
        PROVE  view' = view /\ box' = box
    BY <2>2 DEF Receive, traffic, answers, placement
  <2>3. CASE Served
    <3>1. /\ box'[d].shows = box[d].shows \/ box'[d].shows = view'[d]
          /\ view[d] <= view'[d]
      BY <2>3, ServedBoxes
    <3> QED BY <1>0, <2>0, <3>1
  <2>4. CASE view' = view /\ (box'[d].shows = box[d].shows \/ box'[d].shows = None)
    BY <1>0, <2>0, <2>4
  <2>5. UNCHANGED vars => view' = view /\ box' = box
    BY DEF vars, placement, traffic, answers, placement
  <2> QED BY <2>1, <2>2, <2>3, <2>4, <2>5, StepForms
<1>2. pressed \subseteq pressed'
  <2>1. ASSUME NEW d \in Devices, Connect(d) \/ Ping(d) \/ Press(d) PROVE pressed \subseteq pressed'
    BY <2>1 DEF Connect, Ping, Press
  <2>2. ASSUME NEW e \in Devices, NEW acknowledged \in BOOLEAN, Receive(e, acknowledged)
        PROVE  pressed' = pressed
    BY <2>2 DEF Receive
  <2> QED BY <2>1, <2>2, ServedBoxes, StepForms DEF vars, placement
<1>3. ASSUME NEW m \in Message, m.leaf = "command", NEW d \in Devices, Sends(d, m)
      PROVE  /\ ~Around(m) /\ m.command \notin pressed /\ m.command \in pressed' /\ m.command[1] = m.device
             /\ m.token <= view'[m.device] /\ acted'[m.command] # 1 /\ "rejected" \notin acks'[m.command]
  <2>1. /\ m.command[1] = d /\ m.device = d /\ m.command \notin pressed /\ m.command \in pressed'
        /\ box[d].shows # None /\ m.token = box[d].shows /\ view' = view /\ acks' = acks /\ acted' = acted
    BY <1>3 DEF Sends
  <2>2. ~Around(m)
    BY <1>3, <2>1 DEF Presses
  <2>3. acted'[m.command] # 1 /\ "rejected" \notin acks'[m.command]
    BY <1>3, <2>1, MessageFields DEF Decided, Told
  <2> QED BY <2>1, <2>2, <2>3 DEF Presses
<1>4. ASSUME NEW m \in Message, m.leaf = "command", Around(m)'
      PROVE  /\ m.command \in pressed' /\ m.command[1] = m.device
             /\ m.token <= view'[m.device]
             /\ acted'[m.command] = 1 => m.token < view'[m.device]
             /\ "rejected" \in acks'[m.command] => Excused(m)'
  <2>1. CASE Around(m)
    <3>1. /\ m.command \in pressed /\ m.command[1] = m.device /\ m.token <= view[m.device]
      BY <1>4, <2>1 DEF Presses
    <3>2. m.device \in Devices /\ m.token \in Nat
      BY <1>4, MessageFields, LinkAssumption DEF Views
    <3>3. m.token <= view'[m.device]
      BY <1>0, <1>1, <3>1, <3>2
    <3> QED BY <1>2, <1>4, <2>1, <3>1, <3>3, RefusalLasts
  <2>2. CASE \E d \in Devices : Sends(d, m)
    BY <1>3, <1>4, <2>2
  <2> QED BY <1>4, <2>1, <2>2, AroundStep
<1>5. ASSUME NEW m \in Message, m.leaf = "command", Around(m)',
             NEW n \in Message, Around(n)', n.command = m.command
      PROVE  n = m
  <2>1. n.leaf = "command"
    BY <1>5, MessageFields
  <2>2. CASE Around(m) /\ Around(n)
    BY <1>5, <2>2 DEF Presses
  <2>3. ASSUME NEW d \in Devices, Sends(d, m), Around(n) PROVE FALSE
    BY <1>3, <1>5, <2>1, <2>3 DEF Presses
  <2>4. ASSUME NEW d \in Devices, Sends(d, n), Around(m) PROVE FALSE
    BY <1>3, <1>5, <2>1, <2>4 DEF Presses
  <2>5. ASSUME NEW d \in Devices, NEW e \in Devices, Sends(d, m), Sends(e, n) PROVE n = m
    <3>1. /\ link'[d] = Append(link[d], m) /\ link'[e] = Append(link[e], n) /\ m.command[1] = d /\ n.command[1] = e
      BY <1>5, <2>1, <2>5 DEF Sends
    <3>2. link[d] \in Seq(Message) /\ d = e
      BY <1>5, <3>1, LinkTypes
    <3> QED BY <3>1, <3>2
  <2> QED BY <1>5, <2>2, <2>3, <2>4, <2>5, AroundStep
<1> QED BY <1>1, <1>4, <1>5 DEF Presses

Answering == Typed /\ Presses /\ Decided

LEMMA AnsweringAlways == Spec => []Answering
<1>1. Init => Answering
  BY TypedInit, PressesInit, DecidedInit DEF Answering
<1>2. Answering /\ [Next]_vars => Answering'
  BY TypedStep, PressesStep, DecidedStep DEF Answering
<1> QED BY <1>1, <1>2, PTL DEF Spec

\* A press takes effect at most once, and what its box is told is so: yes only of a
\* press that has, and no only of one that has not and never does or whose box has
\* been given another place since the key was pressed, however often the broker
\* delivers it again, whatever raises and whenever the server restarts or changes
\* day (the receipts and their signatures, the answers in memory, and the tokens).
THEOREM BoxesAreToldTheTruth == Spec => []AnswersAreTrue
<1>1. Answering => AnswersAreTrue
  BY DEF Answering, Decided, Told, AnswersAreTrue
<1> QED BY <1>1, AnsweringAlways, PTL

-----------------------------------------------------------------------------
(* Work of ended sessions *)

\* What waited in the inbox when its box had a new connection is nowhere else,
\* and the box's session is, and will only be, of a later connection.
Ended ==
    \A c \in late :
        /\ c \in Commands /\ c \in pressed /\ acted[c] = 0
        /\ \A m \in Message : Around(m) /\ m.command = c =>
             /\ (working # None => working # m)
             /\ \A k \in DOMAIN link[c[1]] : link[c[1]][k] # m
             /\ sessions[c[1]] # None => m.boot < sessions[c[1]]
             /\ Past(c[1], m.boot + 1)

LEMMA EndedInit == Init => Ended
<1> QED BY DEF Init, Ended

\* A press that the worker takes is of the session the network thread knows.
LEMMA TakesNothingLate ==
    ASSUME Typed, Presses, Ended, NEW c \in late, NEW i \in DOMAIN inbox, inbox[i].message.command = c
    PROVE  ~Current(inbox[i])
<1> DEFINE m == inbox[i].message
<1>1. m \in Message /\ m.boot \in Nat /\ Around(m) /\ c \in Commands
  BY LinkTypes DEF Around, Ended
<1>2. m.leaf = "command" /\ m.device \in Devices
  BY <1>1, MessageFields
<1>3. c[1] = m.device
  BY <1>1, <1>2 DEF Presses
<1>4. sessions[m.device] # None => m.boot < sessions[m.device]
  BY <1>1, <1>3 DEF Ended
<1>5. sessions[m.device] \in Nat \cup {None} /\ None \notin Nat
  BY <1>2, BootsAreNumbers, LinkAssumption DEF Typed, TypeOK
<1> HIDE DEF m
<1>6. sessions[m.device] # m.boot
  BY <1>1, <1>4, <1>5
<1> QED BY <1>6 DEF Current, m

LEMMA EndedStep == ASSUME Typed, Ordered, Presses, Decided, Ended, [Next]_vars PROVE Ended'
<1>1. ASSUME NEW d \in Devices, Connect(d) \/ Ping(d) \/ Press(d) PROVE Ended'
  <2> PICK n \in Message : Sends(d, n)
    BY <1>1, SendForms
  <2>1. /\ link'[d] = Append(link[d], n) /\ \A e \in Devices : e # d => link'[e] = link[e]
        /\ UNCHANGED <<acted, inbox, working, sessions, late>> /\ pressed \subseteq pressed'
    BY <1>1 DEF Sends, Connect, Ping, Press
  <2> SUFFICES ASSUME NEW c \in late, NEW m \in Message, Around(m)', m.command = c
               PROVE  /\ (working' # None => working' # m)
                      /\ \A k \in DOMAIN link'[c[1]] : link'[c[1]][k] # m
                      /\ sessions'[c[1]] # None => m.boot < sessions'[c[1]]
                      /\ PastNext(c[1], m.boot + 1)
    BY <2>1 DEF Ended, Past, PastNext
  <2>2. c \in Commands /\ c \in pressed /\ c[1] \in Devices
    BY LinkAssumption DEF Ended
  <2>3. m.leaf = "command" /\ m.boot \in Nat
    BY <2>2, MessageFields
  <2>4. n # m
    BY <2>2, <2>3 DEF Sends
  <2>5. Around(m)
    <3>1. ASSUME NEW e \in Devices, Sends(e, m) PROVE FALSE
      BY <2>2, <2>3, <3>1 DEF Sends
    <3> QED BY <3>1, AroundStep
  <2>6. Past(c[1], m.boot + 1)' 
    <3>1. m.boot + 1 \in Nat /\ Past(c[1], m.boot + 1)
      BY <2>3, <2>5 DEF Ended
    <3> QED BY <2>2, <3>1, PastStep
  <2>7. \A k \in DOMAIN link'[c[1]] : link'[c[1]][k] # m
    <3>1. \A k \in DOMAIN link[c[1]] : link[c[1]][k] # m
      BY <2>5 DEF Ended
    <3>2. CASE c[1] = d
      <4>1. link[d] \in Seq(Message)
        BY LinkTypes
      <4>2. \A k \in DOMAIN link'[d] : link'[d][k] = n \/ (k \in DOMAIN link[d] /\ link'[d][k] = link[d][k])
        BY <2>1, <4>1
      <4> QED BY <2>4, <3>1, <3>2, <4>2
    <3>3. CASE c[1] # d
      BY <2>1, <2>2, <3>1, <3>3
    <3> QED BY <3>2, <3>3
  <2> QED BY <2>1, <2>5, <2>6, <2>7 DEF Ended, Past, PastNext
<1>2. ASSUME NEW d \in Devices, NEW acknowledged \in BOOLEAN, Receive(d, acknowledged) PROVE Ended'
  <2> DEFINE h == Head(link[d])
  <2>1. /\ link[d] # <<>> /\ h \in Message /\ h.device = d /\ h.boot \in Nat /\ Past(d, h.boot) /\ Around(h)
    BY <1>2, ReceiveEffect, OldestFirst, MessageFields DEF Around
  <2>2. /\ UNCHANGED <<box, pressed, working, acted>>
        /\ link'[d] \in {link[d], Tail(link[d])} /\ \A e \in Devices : e # d => link'[e] = link[e]
    BY <1>2, ReceiveEffect DEF Receive, traffic, answers, placement
  <2>3. \A e \in Devices : \A k \in DOMAIN link'[e] : \E j \in DOMAIN link[e] : link'[e][k] = link[e][j]
    <3>1. link[d] \in Seq(Message) /\ link[d] # <<>>
      BY <2>1, LinkTypes
    <3>2. \A k \in DOMAIN Tail(link[d]) : k + 1 \in DOMAIN link[d] /\ Tail(link[d])[k] = link[d][k + 1]
      BY <3>1
    <3> QED BY <2>2, <3>2
  <2>4. \A m \in Message : Around(m)' => Around(m)
    <3>1. ASSUME NEW m \in Message, NEW e \in Devices, Sends(e, m) PROVE FALSE
      <4>1. link'[e] = Append(link[e], m) /\ link[e] \in Seq(Message)
        BY <3>1, LinkTypes DEF Sends
      <4>2. Len(link'[e]) = Len(link[e]) + 1 /\ Len(link[e]) \in Nat
        BY <4>1
      <4>3. CASE e = d
        <5>1. Len(link'[d]) \in {Len(link[d]), Len(link[d]) - 1}
          BY <2>1, <2>2, <4>1, <4>3
        <5> QED BY <4>2, <4>3, <5>1
      <4>4. CASE e # d
        <5>1. Len(link'[e]) = Len(link[e])
          BY <2>2, <4>4
        <5> QED BY <4>2, <5>1
      <4> QED BY <4>3, <4>4
    <3> QED BY <3>1, AroundStep
  <2>5. CASE UNCHANGED <<sessions, late>> \/ (ReceiveHello(h) /\ late' = late \cup Waiting(d, h.boot))
    <3> SUFFICES ASSUME NEW c \in late'
                 PROVE  /\ c \in Commands /\ c \in pressed /\ acted[c] = 0
                        /\ \A m \in Message : Around(m)' /\ m.command = c =>
                             /\ (working # None => working # m)
                             /\ \A k \in DOMAIN link'[c[1]] : link'[c[1]][k] # m
                             /\ sessions'[c[1]] # None => m.boot < sessions'[c[1]]
                             /\ PastNext(c[1], m.boot + 1)
      BY <2>2 DEF Ended, Past, PastNext
    <3>1. c \in Commands /\ c[1] \in Devices /\ acted[c] = 0 /\ c \in pressed
      <4>1. CASE c \in late
        BY <4>1, LinkAssumption DEF Ended
      <4>2. CASE c \in Waiting(d, h.boot)
        <5>1. /\ c \in Commands /\ c[1] = d /\ acted[c] = 0
              /\ \E k \in DOMAIN inbox : inbox[k].message.command = c
          BY <4>2 DEF Waiting
        <5> PICK k \in DOMAIN inbox : inbox[k].message.command = c
          BY <5>1
        <5>2. inbox[k].message \in Message /\ Around(inbox[k].message)
          BY LinkTypes DEF Around
        <5>3. inbox[k].message.leaf = "command"
          BY <5>1, <5>2, MessageFields
        <5> QED BY <5>1, <5>2, <5>3 DEF Presses
      <4> QED BY <2>5, <4>1, <4>2
    <3>2. ASSUME NEW m \in Message, Around(m)', m.command = c
          PROVE  /\ (working # None => working # m)
                 /\ \A k \in DOMAIN link[c[1]] : link[c[1]][k] # m
                 /\ sessions'[c[1]] # None => m.boot < sessions'[c[1]]
                 /\ Past(c[1], m.boot + 1) /\ m.boot + 1 \in Nat
      <4>1. /\ Around(m) /\ m.leaf = "command" /\ m.boot \in Nat /\ m.boot + 1 \in Nat /\ m.device \in Devices
            /\ c[1] = m.device
        <5>1. Around(m) /\ m.leaf = "command" /\ m.boot \in Nat /\ m.boot + 1 \in Nat /\ m.device \in Devices
          BY <2>4, <3>1, <3>2, MessageFields
        <5> QED BY <3>2, <5>1 DEF Presses
      <4>2. CASE c \in late
        <5>1. /\ (working # None => working # m)
              /\ \A k \in DOMAIN link[c[1]] : link[c[1]][k] # m
              /\ sessions[c[1]] # None => m.boot < sessions[c[1]]
              /\ Past(c[1], m.boot + 1)
          BY <3>2, <4>1, <4>2 DEF Ended
        <5>2. sessions'[c[1]] # None => m.boot < sessions'[c[1]]
          <6>1. CASE UNCHANGED sessions
            BY <5>1, <6>1
          <6>2. CASE ReceiveHello(h)
            <7>1. /\ sessions'[d] = h.boot
                  /\ \A e \in Devices : e # d => sessions'[e] \in {sessions[e], None}
              BY <2>1, <6>2, HelloSessions
            <7>2. c[1] = d => m.boot < h.boot
              <8>1. link[d][1] = h /\ 1 \in DOMAIN link[d]
                BY <2>1, LinkTypes
              <8> QED BY <2>1, <4>1, <5>1, <8>1 DEF Past
            <7> QED BY <3>1, <5>1, <7>1, <7>2
          <6> QED BY <2>5, <6>1, <6>2
        <5> QED BY <4>1, <5>1, <5>2
      <4>3. CASE c \notin late
        <5>1. ReceiveHello(h) /\ c \in Waiting(d, h.boot)
          BY <2>5, <4>3
        <5>2. /\ c[1] = d /\ acted[c] = 0 /\ (working # None => working.command # c)
              /\ \E k \in DOMAIN inbox : inbox[k].message.command = c /\ inbox[k].message.boot # h.boot
          BY <5>1 DEF Waiting
        <5> PICK k \in DOMAIN inbox : inbox[k].message.command = c /\ inbox[k].message.boot # h.boot
          BY <5>2
        <5>3. inbox[k].message = m
          <6>1. inbox[k].message \in Message /\ Around(inbox[k].message)
            BY LinkTypes DEF Around
          <6> QED BY <3>2, <4>1, <6>1 DEF Presses
        <5>4. Past(d, m.boot) /\ m.boot # h.boot
          BY <4>1, <5>2, <5>3 DEF Ordered
        <5>5. link[d][1] = h /\ 1 \in DOMAIN link[d]
          BY <2>1, LinkTypes
        <5>6. m.boot < h.boot
          BY <2>1, <4>1, <5>4, <5>5 DEF Past
        <5>7. Past(d, m.boot + 1)
          <6>1. /\ h.boot <= box[d].boot /\ box[d].boot \in Nat
                /\ \A j \in DOMAIN link[d] : h.boot <= link[d][j].boot /\ link[d][j].boot \in Nat
            BY <2>1, LinkTypes DEF Past
          <6> QED BY <2>1, <4>1, <5>6, <6>1 DEF Past
        <5>8. \A j \in DOMAIN link[d] : link[d][j] # m
          <6>1. \A j \in DOMAIN link[d] : h.boot <= link[d][j].boot /\ link[d][j].boot \in Nat
            BY <2>1, LinkTypes DEF Past
          <6> QED BY <2>1, <4>1, <5>6, <6>1
        <5>9. sessions'[d] = h.boot
          BY <2>1, <5>1, HelloSessions
        <5>10. working # None => working # m
          BY <3>2, <5>2
        <5> QED BY <4>1, <5>2, <5>6, <5>7, <5>8, <5>9, <5>10
      <4> QED BY <4>2, <4>3
    <3>3. ASSUME NEW m \in Message, Around(m)', m.command = c
          PROVE  (\A k \in DOMAIN link'[c[1]] : link'[c[1]][k] # m) /\ PastNext(c[1], m.boot + 1)
      <4>1. /\ \A k \in DOMAIN link[c[1]] : link[c[1]][k] # m
            /\ Past(c[1], m.boot + 1) /\ m.boot + 1 \in Nat
        BY <3>2, <3>3
      <4>2. Past(c[1], m.boot + 1)'
        BY <3>1, <4>1, PastStep
      <4> QED BY <2>3, <3>1, <4>1, <4>2 DEF Past, PastNext
    <3> QED BY <3>1, <3>2, <3>3
  <2>6. UNCHANGED <<sessions, late>> \/ (ReceiveHello(h) /\ late' = late \cup Waiting(d, h.boot))
    BY <1>2 DEF Receive
  <2> QED BY <2>5, <2>6
<1>3. CASE Served
  <2>1. /\ link' = link /\ pressed' = pressed /\ late' = late
        /\ \A d \in Devices : sessions'[d] \in {sessions[d], None} /\ box'[d].boot = box[d].boot
    BY <1>3, ServedBoxes
  <2>2. /\ \A i \in DOMAIN inbox' : \E j \in DOMAIN inbox : inbox'[i] = inbox[j]
        /\ \/ working' = None
           \/ working' = working
           \/ \E i \in DOMAIN inbox : inbox[i].message = working' /\ Current(inbox[i])
    BY <1>3, ServedInbox
  <2>3. \A m \in Message : Around(m)' => Around(m)
    BY <2>1, <2>2 DEF Around
  <2>4. ASSUME NEW c \in late PROVE acted'[c] = 0
    <3>1. acted[c] = 0 /\ c \in Commands
      BY DEF Ended
    <3>2. CASE WorkCommand
      <4>1. working \in Message /\ Around(working) /\ working.command \in Commands
        BY <3>2, MessageFields DEF WorkCommand, Typed, TypeOK, Around
      <4>2. working.command # c
        BY <3>2, <4>1 DEF Ended, WorkCommand
      <4>3. acted \in [Commands -> Nat]
        BY DEF Typed, TypeOK
      <4> QED BY <3>1, <3>2, <4>1, <4>2, <4>3 DEF WorkCommand, Decide
    <3>3. CASE UNCHANGED acted
      BY <3>1, <3>3
    <3>4. Worker => WorkCommand \/ UNCHANGED acted
      BY DEF Worker, WorkTake, WorkHello, WorkRefused, WorkPresence, traffic, answers, placement
    <3>5. Tick \/ Restart \/ NewScope \/ (\E d \in Devices : Elsewhere(d) \/ Assign(d)) => UNCHANGED acted
      BY DEF Tick, Restart, NewScope, Elsewhere, Assign, traffic, answers, placement
    <3> QED BY <1>3, <3>2, <3>3, <3>4, <3>5 DEF Served
  <2>5. ASSUME NEW c \in late, NEW m \in Message, Around(m)', m.command = c PROVE working' # None => working' # m
    <3>1. Around(m) /\ c \in Commands
      BY <2>3, <2>5 DEF Ended
    <3>2. working # None => working # m
      BY <2>5, <3>1 DEF Ended
    <3>3. ASSUME NEW i \in DOMAIN inbox, inbox[i].message = m PROVE ~Current(inbox[i])
      BY <2>5, <3>3, TakesNothingLate
    <3> QED BY <2>2, <3>2, <3>3
  <2> SUFFICES ASSUME NEW c \in late, NEW m \in Message, Around(m)', m.command = c
               PROVE  /\ \A k \in DOMAIN link'[c[1]] : link'[c[1]][k] # m
                      /\ sessions'[c[1]] # None => m.boot < sessions'[c[1]]
                      /\ PastNext(c[1], m.boot + 1)
    BY <2>1, <2>4, <2>5 DEF Ended, Past, PastNext
  <2>6. Around(m) /\ c \in Commands /\ c[1] \in Devices
    BY <2>3, LinkAssumption DEF Ended
  <2> QED BY <2>1, <2>6 DEF Ended, Past, PastNext
<1>4. CASE UNCHANGED vars
  BY <1>4 DEF vars, server, traffic, answers, placement, Ended, Around, Past
<1> QED BY <1>1, <1>2, <1>3, <1>4, StepForms

\* A press that was still waiting in the inbox when its box had a new connection
\* is never carried out, whatever is delivered again, forgotten, resumed or
\* restarted (handle looks the session up again before it takes the traffic lock).
THEOREM EndedSessionsAreSkipped == Spec => []QueuedWorkOfEndedSessionsIsSkipped
<1> DEFINE I == Answering /\ Ordered /\ Ended
<1>1. Init => I
  BY TypedInit, PressesInit, DecidedInit, OrderedInit, EndedInit DEF Answering
<1>2. I /\ [Next]_vars => I'
  BY TypedStep, PressesStep, DecidedStep, OrderedStep, EndedStep DEF Answering
<1>3. I => QueuedWorkOfEndedSessionsIsSkipped
  BY DEF Ended, QueuedWorkOfEndedSessionsIsSkipped
<1> QED BY <1>1, <1>2, <1>3, PTL DEF Spec

=============================================================================
