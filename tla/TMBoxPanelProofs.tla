--------------------------- MODULE TMBoxPanelProofs ---------------------------
(***************************************************************************)
(* What holds of the TMBox in the browser for every list of movements,     *)
(* cases, messages, lines and tracks, any day at the server and however    *)
(* many refreshes that overlap.  First the types: every key, answer and    *)
(* command keeps the page to rows that are there.  Then, that a command is *)
(* one the display showed (Shown: the display is what would be drawn now,  *)
(* but for what changes undrawn), and that nothing is signalled twice      *)
(* (Announced: what is remembered was so at the moment of the last         *)
(* snapshot, and all that is told had come by then).                       *)
(***************************************************************************)
EXTENDS TMBoxPanel, FiniteSetTheorems, TLAPS

-----------------------------------------------------------------------------
(* Types *)

Configs == {NoConfig} \cup {ConfigOf(p) : p \in 1 .. MaxPublication}

Allowances == {"clearance.request", "train.track.change", "train.departed"}

Rows == Seq([id : Ids(Order), allowed : SUBSET Allowances, track : {Tracks[1]}])
OpenCases == Seq([id : Ids(Cases), status : {"waiting", "approved", "rejected"}, to : {"us", "them"}])
LineMessages == Seq([id : Ids(Messages), to : {"us"}])

Snapshots ==
    {s \in [moves : Rows, cases : OpenCases, messages : LineMessages] :
        Len(s.moves) <= Len(Order) /\ Len(s.cases) <= Len(Cases) /\ Len(s.messages) <= Len(Messages)}

Screens ==
    {"Overview", "Detail", "TrackPicker", "LinePicker", "Lookup", "Results", "CaseInbox", "LineInbox",
     "Sending", "CommandAccepted", "CommandRejected", "Identity", "AwaitingAssignment", "ServerGone",
     "LoadingStation"}

Trains == Seq(Ids(Order))

Places(list) == {1} \cup DOMAIN list

Views ==
    [screen : Screens, move : 0 .. Len(Order), track : Places(Tracks), line : Places(Lines),
     number : Numbers \cup {None}, found : Trains, match : Nat,
     case : Places(Cases) \cup Places(Messages), locked : BOOLEAN]

Assignments ==
    [status : {"none", "awaiting", "assigned"}, publication : 0 .. MaxPublication, language : Languages \cup {None}]

LEMMA ConfigTypes ==
    ASSUME NEW c \in Configs
    PROVE  /\ c.tracks \in Seq(Ids(Tracks)) /\ (c.tracks = << >> \/ Len(c.tracks) = Len(Tracks))
           /\ c.lines \in Seq(Ids(Lines)) /\ (c.lines = << >> \/ Len(c.lines) = Len(Lines))
<1>1. CASE c = NoConfig
  BY <1>1 DEF NoConfig
<1>2. ASSUME NEW p \in 1 .. MaxPublication, c = ConfigOf(p)
      PROVE  /\ c.tracks = Tracks /\ c.lines \in Seq(Ids(Lines)) /\ Len(c.lines) = Len(Lines)
  <2>1. Lines \in Seq(Ids(Lines)) /\ Len(Lines) \in Nat /\ DOMAIN Lines = 1 .. Len(Lines)
    BY PanelAssumption
  <2>2. c.tracks = Tracks /\ c.lines = LinesOf(p)
    BY <1>2 DEF ConfigOf
  <2>3. CASE LinesOf(p) = Lines
    BY <2>1, <2>2, <2>3
  <2>4. CASE LinesOf(p) = [i \in DOMAIN Lines |-> Lines[Len(Lines) + 1 - i]]
    <3>1. \A i \in 1 .. Len(Lines) : Lines[Len(Lines) + 1 - i] \in Ids(Lines)
      <4> SUFFICES ASSUME NEW i \in 1 .. Len(Lines) PROVE Lines[Len(Lines) + 1 - i] \in Ids(Lines)
        OBVIOUS
      <4>1. Len(Lines) + 1 - i \in DOMAIN Lines
        BY <2>1
      <4> QED BY <4>1 DEF Ids
    <3>2. LinesOf(p) \in [1 .. Len(Lines) -> Ids(Lines)]
      BY <2>1, <2>4, <3>1
    <3> QED BY <2>1, <2>2, <3>2
  <2> QED BY <2>3, <2>4 DEF LinesOf
<1>3. Tracks \in Seq(Ids(Tracks))
  BY PanelAssumption
<1> QED BY <1>1, <1>2, <1>3 DEF Configs

\* The next row of a list is one of its rows.
LEMMA FollowingIsThere ==
    ASSUME NEW S, NEW list \in Seq(S), list # << >>, NEW i \in Nat
    PROVE  Following(i, list) \in 1 .. Len(list)
<1>1. Len(list) \in Nat \ {0}
  OBVIOUS
<1>2. i % Len(list) \in 0 .. Len(list) - 1
  BY <1>1
<1> QED BY <1>1, <1>2 DEF Following

LEMMA PlaceIsThere ==
    ASSUME NEW moves, NEW id
    PROVE  Place(moves, id) = 0 \/ Place(moves, id) \in DOMAIN moves
BY DEF Place

LEMMA PlaceOfTrackIsThere ==
    ASSUME NEW tracks, NEW track
    PROVE  PlaceOfTrack(tracks, track) = 1 \/ PlaceOfTrack(tracks, track) \in DOMAIN tracks
BY DEF PlaceOfTrack

LEMMA ShowTyped ==
    ASSUME NEW v \in Views, NEW screen \in Screens
    PROVE  /\ Show(v, screen) \in Views /\ Show(v, screen).screen = screen
           /\ Show(v, screen).move = v.move /\ Show(v, screen).track = v.track
           /\ Show(v, screen).line = v.line /\ Show(v, screen).number = v.number
           /\ Show(v, screen).case = v.case
BY DEF Show, Views, Screens

LEMMA NoTrains == << >> \in Trains
BY DEF Trains

-----------------------------------------------------------------------------
(* Keys *)

\* What a key may come to: it is ignored, or shows something else and does not
\* enter a picker without a movement, or sends what the display shows.
Sound(result, v, c, s) ==
    \/ result = Ignored(v)
    \/ /\ result.outcome = "Redraw" /\ result.view \in Views
       /\ result.view.screen \in Pickers => v.screen \in Pickers \/ s.moves # << >>
    \/ /\ result.outcome = "Send" /\ result.view = v /\ v.screen # "LoadingStation"
       /\ Reads(OnDisplay(v, c, s), result.command)

LEMMA RedrawIsSound ==
    ASSUME NEW v, NEW c, NEW s, NEW w \in Views,
           w.screen \in Pickers => v.screen \in Pickers \/ s.moves # << >>
    PROVE  Sound(Redraw(w), v, c, s)
BY DEF Sound, Redraw

LEMMA SnapshotTypes ==
    ASSUME NEW s \in Snapshots
    PROVE  /\ s.moves \in Rows /\ s.cases \in OpenCases /\ s.messages \in LineMessages
           /\ Len(s.moves) \in 0 .. Len(Order) /\ DOMAIN s.moves = 1 .. Len(s.moves)
           /\ Len(s.cases) \in 0 .. Len(Cases) /\ DOMAIN s.cases = 1 .. Len(s.cases)
           /\ Len(s.messages) \in 0 .. Len(Messages) /\ DOMAIN s.messages = 1 .. Len(s.messages)
BY DEF Snapshots, Rows, OpenCases, LineMessages

LEMMA ListTypes ==
    /\ Len(Order) \in Nat /\ DOMAIN Order = 1 .. Len(Order)
    /\ Len(Cases) \in Nat /\ DOMAIN Cases = 1 .. Len(Cases)
    /\ Len(Messages) \in Nat /\ DOMAIN Messages = 1 .. Len(Messages)
    /\ Len(Lines) \in Nat /\ DOMAIN Lines = 1 .. Len(Lines)
    /\ Len(Tracks) \in Nat /\ DOMAIN Tracks = 1 .. Len(Tracks)
BY PanelAssumption

LEMMA BackIsSound ==
    ASSUME NEW v \in Views, NEW c, NEW s PROVE Sound(Back(v), v, c, s)
<1>1. CASE v.screen \in {"TrackPicker", "LinePicker"}
  BY <1>1, ShowTyped, RedrawIsSound DEF Back, Pickers, Screens
<1>2. CASE v.screen \notin {"TrackPicker", "LinePicker"}
  <2> DEFINE w == [v EXCEPT !.move = 0, !.case = 1, !.number = None, !.found = << >>]
  <2>1. w \in Views
    <3>1. 0 \in 0 .. Len(Order) /\ 1 \in Places(Cases) \cup Places(Messages)
      BY ListTypes DEF Places
    <3>2. None \in Numbers \cup {None}
      OBVIOUS
    <3> QED BY <3>1, <3>2, NoTrains DEF Views
  <2> HIDE DEF w
  <2>2. Show(w, "Overview") \in Views /\ Show(w, "Overview").screen = "Overview"
    BY <2>1, ShowTyped DEF Screens
  <2>3. Sound(Redraw(Show(w, "Overview")), v, c, s)
    BY <2>2, RedrawIsSound DEF Pickers
  <2>4. Back(v) = Redraw(Show(w, "Overview"))
    BY <1>2 DEF Back, w
  <2> QED BY <2>3, <2>4
<1> QED BY <1>1, <1>2

LEMMA TypeIsSound ==
    ASSUME NEW v \in Views, NEW c, NEW s, NEW n \in Numbers PROVE Sound(Type(v, n), v, c, s)
<1> DEFINE w == [Show(v, "Lookup") EXCEPT !.number = n]
<1>1. Show(v, "Lookup") \in Views /\ Show(v, "Lookup").screen = "Lookup"
  BY ShowTyped DEF Screens
<1>2. w \in Views /\ w.screen = "Lookup"
  BY <1>1 DEF Views
<1> QED BY <1>2, RedrawIsSound DEF Type, Pickers

LEMMA OverviewIsSound ==
    ASSUME NEW v \in Views, NEW c, NEW s \in Snapshots, NEW key
    PROVE  Sound(OverviewKey(key, v, s), v, c, s)
<1>1. ASSUME s.moves # << >> PROVE Sound(Redraw(Show([v EXCEPT !.move = 1], "Detail")), v, c, s)
  <2>1. [v EXCEPT !.move = 1] \in Views
    BY <1>1, ListTypes, SnapshotTypes DEF Views, Rows
  <2>2. Show([v EXCEPT !.move = 1], "Detail") \in Views /\ Show([v EXCEPT !.move = 1], "Detail").screen = "Detail"
    BY <2>1, ShowTyped DEF Screens
  <2> QED BY <2>2, RedrawIsSound DEF Pickers
<1>2. /\ Sound(Redraw(Show([v EXCEPT !.case = 1], "CaseInbox")), v, c, s)
      /\ Sound(Redraw(Show([v EXCEPT !.case = 1], "LineInbox")), v, c, s)
  <2>1. [v EXCEPT !.case = 1] \in Views
    BY DEF Views, Places
  <2> DEFINE w == [v EXCEPT !.case = 1]
  <2> HIDE DEF w
  <2>2. /\ Show(w, "CaseInbox") \in Views /\ Show(w, "CaseInbox").screen = "CaseInbox"
        /\ Show(w, "LineInbox") \in Views /\ Show(w, "LineInbox").screen = "LineInbox"
    BY <2>1, ShowTyped DEF w, Screens
  <2>3. Sound(Redraw(Show(w, "CaseInbox")), v, c, s) /\ Sound(Redraw(Show(w, "LineInbox")), v, c, s)
    BY <2>2, RedrawIsSound DEF Pickers
  <2> QED BY <2>3 DEF w
<1>3. Sound(Ignored(v), v, c, s)
  BY DEF Sound
<1> QED BY <1>1, <1>2, <1>3 DEF OverviewKey

\* The primary action of a train is one of those, or none.
LEMMA PrimaryIsOne ==
    ASSUME NEW move PROVE Primary(move) = None \/ Primary(move) \in {Primaries[i] : i \in 1 .. 6}
<1> DEFINE allowed == {i \in DOMAIN Primaries : Primaries[i] \in move.allowed}
<1>1. DOMAIN Primaries = 1 .. 6
  BY DEF Primaries
<1>2. CASE allowed # {}
  <2> DEFINE First(i) == i \in allowed /\ \A j \in allowed : i <= j
  <2>1. allowed \subseteq {1, 2, 3, 4, 5, 6}
    BY <1>1
  <2>2. \E i \in allowed : \A j \in allowed : i <= j
    <3> HIDE DEF allowed
    <3>0. allowed # {}
      BY <1>2 DEF allowed
    <3>1. CASE 1 \in allowed
      BY <2>1, <3>1
    <3>2. CASE 1 \notin allowed /\ 2 \in allowed
      BY <2>1, <3>2
    <3>3. CASE 1 \notin allowed /\ 2 \notin allowed /\ 3 \in allowed
      BY <2>1, <3>3
    <3>4. CASE {1, 2, 3} \cap allowed = {} /\ 4 \in allowed
      BY <2>1, <3>4
    <3>5. CASE {1, 2, 3, 4} \cap allowed = {} /\ 5 \in allowed
      BY <2>1, <3>5
    <3>6. CASE {1, 2, 3, 4, 5} \cap allowed = {}
      <4>1. allowed = {6}
        BY <3>0, <2>1, <3>6
      <4> QED BY <4>1
    <3> QED BY <3>1, <3>2, <3>3, <3>4, <3>5, <3>6
  <2>3. (CHOOSE i \in allowed : \A j \in allowed : i <= j) \in allowed
    <3> HIDE DEF allowed
    <3> QED BY <2>2
  <2>4. Primary(move) = Primaries[CHOOSE i \in allowed : \A j \in allowed : i <= j]
    BY <1>2 DEF Primary
  <2> HIDE DEF allowed
  <2> DEFINE n == CHOOSE i \in allowed : \A j \in allowed : i <= j
  <2>5. n \in 1 .. 6
    <3>1. n \in allowed
      BY <2>3
    <3> HIDE DEF n
    <3> QED BY <2>1, <3>1
  <2> HIDE DEF n
  <2>6. Primaries[n] \in {Primaries[i] : i \in 1 .. 6}
    BY <2>5
  <2> QED BY <2>4, <2>6 DEF n
<1>3. CASE allowed = {}
  BY <1>3 DEF Primary
<1> QED BY <1>2, <1>3

LEMMA DetailIsSound ==
    ASSUME NEW v \in Views, NEW c \in Configs, NEW s \in Snapshots, NEW key, v.screen = "Detail"
    PROVE  Sound(DetailKey(key, v, c, s), v, c, s)
<1> DEFINE m == s.moves[v.move]
<1>1. Sound(Ignored(v), v, c, s)
  BY DEF Sound
<1>2. CASE v.move \notin DOMAIN s.moves
  BY <1>1, <1>2 DEF DetailKey
<1>3. CASE v.move \in DOMAIN s.moves
  <2>0. s.moves # << >> /\ v.move \in 1 .. Len(s.moves)
    BY <1>3, SnapshotTypes
  <2>1. Sound(Redraw([v EXCEPT !.move = Following(@, s.moves), !.locked = TRUE]), v, c, s)
    <3>1. Following(v.move, s.moves) \in 0 .. Len(Order)
      <4>1. s.moves \in Rows /\ Len(s.moves) \in 0 .. Len(Order) /\ v.move \in Nat
        BY <2>0, SnapshotTypes
      <4>2. Following(v.move, s.moves) \in 1 .. Len(s.moves)
        BY <2>0, <4>1, FollowingIsThere DEF Rows
      <4> QED BY <4>1, <4>2, ListTypes
    <3>2. [v EXCEPT !.move = Following(@, s.moves), !.locked = TRUE] \in Views
      BY <3>1 DEF Views
    <3> QED BY <2>0, <3>2, RedrawIsSound
  <2>2. Sound(PrimaryKey(v, c, m), v, c, s)
    <3>1. CASE Primary(m) \notin {None, "clearance.request"}
      <4>1. PrimaryKey(v, c, m) = Send(v, Primary(m), m.id, None)
        BY <3>1 DEF PrimaryKey
      <4>2. OnDisplay(v, c, s) = [screen |-> "Detail", on |-> m.id]
        BY <1>3 DEF OnDisplay
      <4>3. Primary(m) \in {"train.position.set", "train.crew_ready.set", "train.departed",
                            "train.approaching", "train.arrived"}
        BY <3>1, PrimaryIsOne DEF Primaries
      <4>4. Reads([screen |-> "Detail", on |-> m.id], [action |-> Primary(m), of |-> m.id, to |-> None])
        <5> HIDE DEF m
        <5> QED BY <4>3 DEF Reads
      <4> HIDE DEF m
      <4> QED BY <4>1, <4>2, <4>4 DEF Sound, Send
    <3>2. CASE Primary(m) = "clearance.request" /\ Primary(m) # None
      <4>1. [v EXCEPT !.line = 1] \in Views
        BY DEF Views, Places
      <4> DEFINE w == [v EXCEPT !.line = 1]
      <4> HIDE DEF w
      <4>2. Show(w, "LinePicker") \in Views
        BY <4>1, ShowTyped DEF w, Screens
      <4>3. Sound(Redraw(Show(w, "LinePicker")), v, c, s)
        BY <2>0, <4>2, RedrawIsSound
      <4>4. PrimaryKey(v, c, m) \in {Ignored(v), Redraw(Show(w, "LinePicker"))}
        BY <3>2 DEF PrimaryKey, w
      <4> QED BY <1>1, <4>3, <4>4
    <3>3. CASE Primary(m) = None
      <4>1. PrimaryKey(v, c, m) = Ignored(v)
        <5>1. Primary(m) # "clearance.request"
          <6>1. Primaries[3] \in Ids(Primaries) /\ Primaries[3] = "clearance.request"
            BY DEF Primaries, Ids
          <6> QED BY <3>3, <6>1, PanelAssumption
        <5> QED BY <3>3, <5>1 DEF PrimaryKey
      <4> QED BY <1>1, <4>1
    <3> QED BY <3>1, <3>2, <3>3
  <2>3. Sound(Redraw(Show([v EXCEPT !.track = PlaceOfTrack(c.tracks, s.moves[v.move].track)], "TrackPicker")), v, c, s)
    <3> DEFINE w == [v EXCEPT !.track = PlaceOfTrack(c.tracks, s.moves[v.move].track)]
    <3>1. PlaceOfTrack(c.tracks, s.moves[v.move].track) \in Places(Tracks)
      BY ConfigTypes, ListTypes, PlaceOfTrackIsThere DEF Places
    <3>2. w \in Views
      BY <3>1 DEF Views
    <3> HIDE DEF w
    <3>3. Show(w, "TrackPicker") \in Views
      BY <3>2, ShowTyped DEF Screens
    <3>4. Sound(Redraw(Show(w, "TrackPicker")), v, c, s)
      BY <2>0, <3>3, RedrawIsSound
    <3> QED BY <3>4 DEF w
  <2> QED BY <1>1, <1>3, <2>1, <2>2, <2>3 DEF DetailKey
<1> QED BY <1>2, <1>3

LEMMA PickIsSound ==
    ASSUME NEW v \in Views, NEW c, NEW s \in Snapshots,
           NEW action \in {"train.track.change", "clearance.request"}, NEW picked,
           v.screen \in Pickers,
           Reads(OnDisplay(v, c, s), [action |-> action, of |-> s.moves[v.move].id, to |-> picked])
    PROVE  Sound(Pick(v, s, action, picked), v, c, s)
<1>1. CASE v.move \in DOMAIN s.moves /\ action \in s.moves[v.move].allowed
  <2>1. Pick(v, s, action, picked) = Send(v, action, s.moves[v.move].id, picked)
    BY <1>1 DEF Pick
  <2> QED BY <2>1 DEF Sound, Send, Pickers
<1>2. CASE ~(v.move \in DOMAIN s.moves /\ action \in s.moves[v.move].allowed)
  <2>1. Pick(v, s, action, picked) = Ignored(v)
    BY <1>2 DEF Pick
  <2> QED BY <2>1 DEF Sound
<1> QED BY <1>1, <1>2

\* Going on to the next row keeps to the rows there are, on the same screen.
LEMMA NextTrackTyped ==
    ASSUME NEW v \in Views, NEW c \in Configs, c.tracks # << >>
    PROVE  [v EXCEPT !.track = Following(@, c.tracks), !.locked = TRUE] \in Views
<1>1. v.track \in Nat /\ Len(c.tracks) = Len(Tracks)
  BY ConfigTypes, ListTypes DEF Views, Places
<1>2. Following(v.track, c.tracks) \in 1 .. Len(Tracks)
  BY <1>1, ConfigTypes, FollowingIsThere
<1>3. Following(v.track, c.tracks) \in Places(Tracks)
  BY <1>2, ListTypes DEF Places
<1> QED BY <1>3 DEF Views

LEMMA NextLineTyped ==
    ASSUME NEW v \in Views, NEW c \in Configs, c.lines # << >>
    PROVE  [v EXCEPT !.line = Following(@, c.lines), !.locked = TRUE] \in Views
<1>1. v.line \in Nat /\ Len(c.lines) = Len(Lines)
  BY ConfigTypes, ListTypes DEF Views, Places
<1>2. Following(v.line, c.lines) \in 1 .. Len(Lines)
  BY <1>1, ConfigTypes, FollowingIsThere
<1>3. Following(v.line, c.lines) \in Places(Lines)
  BY <1>2, ListTypes DEF Places
<1> QED BY <1>3 DEF Views

LEMMA TrackIsSound ==
    ASSUME NEW v \in Views, NEW c \in Configs, NEW s \in Snapshots, NEW key, v.screen = "TrackPicker"
    PROVE  Sound(TrackKey(key, v, c, s), v, c, s)
<1>1. Sound(Ignored(v), v, c, s)
  BY DEF Sound
<1>2. ASSUME c.tracks # << >>
      PROVE  Sound(Redraw([v EXCEPT !.track = Following(@, c.tracks), !.locked = TRUE]), v, c, s)
  BY <1>2, NextTrackTyped, RedrawIsSound DEF Pickers
<1>3. ASSUME c.tracks # << >> PROVE Sound(Pick(v, s, "train.track.change", c.tracks[v.track]), v, c, s)
  <2>1. v.track \in DOMAIN c.tracks
    <3>1. Len(c.tracks) = Len(Tracks) /\ DOMAIN c.tracks = 1 .. Len(c.tracks) /\ Len(c.tracks) > 0
      BY <1>3, ConfigTypes
    <3> QED BY <3>1, ListTypes DEF Views, Places
  <2>2. OnDisplay(v, c, s) = [screen |-> "TrackPicker", on |-> c.tracks[v.track]]
    BY <1>3, <2>1 DEF OnDisplay, Listed
  <2>3. Reads(OnDisplay(v, c, s),
              [action |-> "train.track.change", of |-> s.moves[v.move].id, to |-> c.tracks[v.track]])
    BY <2>2 DEF Reads
  <2> QED BY <2>3, PickIsSound DEF Pickers
<1> QED BY <1>1, <1>2, <1>3 DEF TrackKey

LEMMA LineIsSound ==
    ASSUME NEW v \in Views, NEW c \in Configs, NEW s \in Snapshots, NEW key, v.screen = "LinePicker"
    PROVE  Sound(LineKey(key, v, c, s), v, c, s)
<1>1. Sound(Ignored(v), v, c, s)
  BY DEF Sound
<1>2. ASSUME c.lines # << >>
      PROVE  Sound(Redraw([v EXCEPT !.line = Following(@, c.lines), !.locked = TRUE]), v, c, s)
  BY <1>2, NextLineTyped, RedrawIsSound DEF Pickers
<1>3. ASSUME c.lines # << >> PROVE Sound(Pick(v, s, "clearance.request", c.lines[v.line]), v, c, s)
  <2>1. v.line \in DOMAIN c.lines
    <3>1. Len(c.lines) = Len(Lines) /\ DOMAIN c.lines = 1 .. Len(c.lines) /\ Len(c.lines) > 0
      BY <1>3, ConfigTypes
    <3> QED BY <3>1, ListTypes DEF Views, Places
  <2>2. OnDisplay(v, c, s) = [screen |-> "LinePicker", on |-> c.lines[v.line]]
    BY <1>3, <2>1 DEF OnDisplay, Listed
  <2>3. Reads(OnDisplay(v, c, s),
              [action |-> "clearance.request", of |-> s.moves[v.move].id, to |-> c.lines[v.line]])
    BY <2>2 DEF Reads
  <2> QED BY <2>3, PickIsSound DEF Pickers
<1> QED BY <1>1, <1>2, <1>3 DEF LineKey

LEMMA LookupIsSound ==
    ASSUME NEW v \in Views, NEW c, NEW s, NEW key, NEW shorter \in Numbers \cup {None}, v.screen = "Lookup"
    PROVE  Sound(LookupKey(key, v, shorter), v, c, s)
<1>1. Sound(Ignored(v), v, c, s)
  BY DEF Sound
<1>2. Sound(Redraw([v EXCEPT !.number = shorter]), v, c, s)
  <2>1. [v EXCEPT !.number = shorter] \in Views /\ [v EXCEPT !.number = shorter].screen = v.screen
    BY DEF Views
  <2> QED BY <2>1, RedrawIsSound
<1>3. Sound(Send(v, "train.lookup", v.number, None), v, c, s)
  <2>1. Reads(OnDisplay(v, c, s), [action |-> "train.lookup", of |-> v.number, to |-> None])
    BY DEF Reads, OnDisplay
  <2> QED BY <2>1 DEF Sound, Send
<1> QED BY <1>1, <1>2, <1>3 DEF LookupKey

LEMMA AtDetailTyped ==
    ASSUME NEW v \in Views, NEW place \in 0 .. Len(Order)
    PROVE  AtDetail(v, place) \in Views /\ AtDetail(v, place).screen = "Detail"
<1> DEFINE w == [v EXCEPT !.move = place, !.number = None, !.found = << >>]
<1>1. w \in Views
  BY NoTrains DEF Views
<1> HIDE DEF w
<1>2. Show(w, "Detail") \in Views /\ Show(w, "Detail").screen = "Detail"
  BY <1>1, ShowTyped DEF Screens
<1> QED BY <1>2 DEF AtDetail, w

LEMMA ResultsAreSound ==
    ASSUME NEW v \in Views, NEW c, NEW s \in Snapshots, NEW key
    PROVE  Sound(ResultsKey(key, v, s), v, c, s)
<1>1. Sound(Ignored(v), v, c, s)
  BY DEF Sound
<1>2. ASSUME v.found # << >>
      PROVE  Sound(Redraw([v EXCEPT !.match = Following(@, v.found), !.locked = TRUE]), v, c, s)
  <2>1. v.found \in Seq(Ids(Order)) /\ v.match \in Nat
    BY DEF Views, Trains
  <2>2. Following(v.match, v.found) \in Nat
    BY <1>2, <2>1, FollowingIsThere
  <2>3. [v EXCEPT !.match = Following(@, v.found), !.locked = TRUE] \in Views
    BY <2>2 DEF Views
  <2> QED BY <2>3, RedrawIsSound DEF Views
<1>3. ASSUME Place(s.moves, Listed(v.found, v.match)) # 0
      PROVE  Sound(Redraw(AtDetail(v, Place(s.moves, Listed(v.found, v.match)))), v, c, s)
  <2> DEFINE place == Place(s.moves, Listed(v.found, v.match))
  <2>1. place \in 0 .. Len(Order)
    BY <1>3, PlaceIsThere, SnapshotTypes
  <2> HIDE DEF place
  <2>2. AtDetail(v, place) \in Views /\ AtDetail(v, place).screen = "Detail"
    BY <2>1, AtDetailTyped
  <2>3. Sound(Redraw(AtDetail(v, place)), v, c, s)
    BY <2>2, RedrawIsSound DEF Pickers
  <2> QED BY <2>3 DEF place
<1> QED BY <1>1, <1>2, <1>3 DEF ResultsKey

LEMMA CaseIsSound ==
    ASSUME NEW v \in Views, NEW c, NEW s \in Snapshots, NEW key, v.screen = "CaseInbox"
    PROVE  Sound(CaseKey(key, v, s), v, c, s)
<1>1. Sound(Ignored(v), v, c, s)
  BY DEF Sound
<1>2. ASSUME s.cases # << >>
      PROVE  Sound(Redraw([v EXCEPT !.case = Following(@, s.cases), !.locked = TRUE]), v, c, s)
  <2>1. v.case \in Nat
    BY ListTypes DEF Views, Places
  <2>2. Following(v.case, s.cases) \in 1 .. Len(s.cases)
    BY <1>2, <2>1, SnapshotTypes, FollowingIsThere DEF OpenCases
  <2>3. Following(v.case, s.cases) \in Places(Cases) \cup Places(Messages)
    BY <2>2, SnapshotTypes, ListTypes DEF Places
  <2> DEFINE w == [v EXCEPT !.case = Following(@, s.cases), !.locked = TRUE]
  <2>4. w \in Views /\ w.screen = v.screen
    BY <2>3 DEF Views
  <2> HIDE DEF w
  <2>5. Sound(Redraw(w), v, c, s)
    BY <2>4, RedrawIsSound DEF Pickers
  <2> QED BY <2>5 DEF w
<1>3. ASSUME s.cases # << >>
      PROVE  Sound(Send(v, "clearance.response", Listed(s.cases, v.case).id, key = "A"), v, c, s)
  <2>1. OnDisplay(v, c, s) = [screen |-> "CaseInbox", on |-> Listed(s.cases, v.case).id]
    BY <1>3 DEF OnDisplay
  <2>2. Reads(OnDisplay(v, c, s),
              [action |-> "clearance.response", of |-> Listed(s.cases, v.case).id, to |-> key = "A"])
    BY <2>1 DEF Reads
  <2> QED BY <2>2 DEF Sound, Send
<1> QED BY <1>1, <1>2, <1>3 DEF CaseKey

LEMMA MessageIsSound ==
    ASSUME NEW v \in Views, NEW c, NEW s \in Snapshots, NEW key, v.screen = "LineInbox"
    PROVE  Sound(MessageKey(key, v, s), v, c, s)
<1>1. Sound(Ignored(v), v, c, s)
  BY DEF Sound
<1>2. ASSUME s.messages # << >>
      PROVE  Sound(Redraw([v EXCEPT !.case = Following(@, s.messages), !.locked = TRUE]), v, c, s)
  <2>1. v.case \in Nat
    BY ListTypes DEF Views, Places
  <2>2. Following(v.case, s.messages) \in 1 .. Len(s.messages)
    BY <1>2, <2>1, SnapshotTypes, FollowingIsThere DEF LineMessages
  <2>3. Following(v.case, s.messages) \in Places(Cases) \cup Places(Messages)
    BY <2>2, SnapshotTypes, ListTypes DEF Places
  <2> DEFINE w == [v EXCEPT !.case = Following(@, s.messages), !.locked = TRUE]
  <2>4. w \in Views /\ w.screen = v.screen
    BY <2>3 DEF Views
  <2> HIDE DEF w
  <2>5. Sound(Redraw(w), v, c, s)
    BY <2>4, RedrawIsSound DEF Pickers
  <2> QED BY <2>5 DEF w
<1>3. ASSUME s.messages # << >>
      PROVE  Sound(Send(v, "line.available.acknowledge", Listed(s.messages, v.case).id, None), v, c, s)
  <2>1. OnDisplay(v, c, s) = [screen |-> "LineInbox", on |-> Listed(s.messages, v.case).id]
    BY <1>3 DEF OnDisplay
  <2>2. Reads(OnDisplay(v, c, s),
              [action |-> "line.available.acknowledge", of |-> Listed(s.messages, v.case).id, to |-> None])
    BY <2>1 DEF Reads
  <2> QED BY <2>2 DEF Sound, Send
<1> QED BY <1>1, <1>2, <1>3 DEF MessageKey

\* Whatever key is pressed in whatever view, on whatever snapshot.
LEMMA PressIsSound ==
    ASSUME NEW key \in Keys, NEW v \in Views, NEW c \in Configs, NEW s \in Snapshots,
           NEW shorter \in Numbers \cup {None}
    PROVE  Sound(Press(key, v, c, s, shorter), v, c, s)
<1>1. Sound(Ignored(v), v, c, s)
  BY DEF Sound
<1>2. CASE v.locked
  BY <1>1, <1>2 DEF Press
<1>3. CASE ~v.locked /\ key = "*"
  <2>1. key \notin Numbers
    BY <1>3, PanelAssumption DEF Letters
  <2>2. Press(key, v, c, s, shorter) = Back(v)
    BY <1>3, <2>1 DEF Press
  <2> QED BY <2>2, BackIsSound
<1>4. CASE ~v.locked /\ key \in Numbers
  <2>1. key \notin {"A", "B", "C", "#", "*"}
    BY <1>4, PanelAssumption DEF Letters
  <2>2. Press(key, v, c, s, shorter) = Type(v, key)
    BY <1>4, <2>1 DEF Press
  <2> QED BY <1>4, <2>2, TypeIsSound
<1>5. CASE ~v.locked /\ key \in {"A", "B", "C", "#"}
  <2>1. key \notin Numbers
    BY <1>5, PanelAssumption DEF Letters
  <2> DEFINE Result ==
        CASE v.screen = "Overview" -> OverviewKey(key, v, s)
              [] v.screen = "Detail" -> DetailKey(key, v, c, s)
              [] v.screen = "TrackPicker" -> TrackKey(key, v, c, s)
              [] v.screen = "LinePicker" -> LineKey(key, v, c, s)
              [] v.screen = "Lookup" -> LookupKey(key, v, shorter)
              [] v.screen = "Results" -> ResultsKey(key, v, s)
              [] v.screen = "CaseInbox" -> CaseKey(key, v, s)
              [] v.screen = "LineInbox" -> MessageKey(key, v, s)
              [] OTHER -> Ignored(v)
  <2>2. Press(key, v, c, s, shorter) = Result
    BY <1>5, <2>1 DEF Press
  <2>3. Sound(Result, v, c, s)
    BY <1>1, OverviewIsSound, DetailIsSound, TrackIsSound, LineIsSound, LookupIsSound,
       ResultsAreSound, CaseIsSound, MessageIsSound
  <2> QED BY <2>2, <2>3
<1> QED BY <1>2, <1>3, <1>4, <1>5 DEF Keys, Letters

-----------------------------------------------------------------------------
(* Answers and snapshots *)

LEMMA LookupTyped ==
    ASSUME NEW v \in Views, NEW s \in Snapshots, NEW matches \in Trains
    PROVE  ApplyLookup(v, s, matches) \in Views /\ ApplyLookup(v, s, matches).screen \in {"Detail", "Results"}
<1>1. ASSUME Place(s.moves, matches[1]) # 0
      PROVE  /\ AtDetail([v EXCEPT !.match = 1], Place(s.moves, matches[1])) \in Views
             /\ AtDetail([v EXCEPT !.match = 1], Place(s.moves, matches[1])).screen = "Detail"
  <2> DEFINE w == [v EXCEPT !.match = 1]
             place == Place(s.moves, matches[1])
  <2>1. w \in Views
    BY DEF Views
  <2>2. place \in 0 .. Len(Order)
    BY <1>1, PlaceIsThere, SnapshotTypes
  <2> HIDE DEF w, place
  <2>3. AtDetail(w, place) \in Views /\ AtDetail(w, place).screen = "Detail"
    BY <2>1, <2>2, AtDetailTyped
  <2> QED BY <2>3 DEF w, place
<1>2. /\ Show([v EXCEPT !.found = matches, !.match = 1], "Results") \in Views
      /\ Show([v EXCEPT !.found = matches, !.match = 1], "Results").screen = "Results"
  <2> DEFINE w == [v EXCEPT !.found = matches, !.match = 1]
  <2>1. w \in Views
    BY DEF Views
  <2> HIDE DEF w
  <2>2. Show(w, "Results") \in Views /\ Show(w, "Results").screen = "Results"
    BY <2>1, ShowTyped DEF Screens
  <2> QED BY <2>2 DEF w
<1> QED BY <1>1, <1>2 DEF ApplyLookup

LEMMA KeepMovementTyped ==
    ASSUME NEW v \in Views, NEW s PROVE KeepMovement(v, s) \in Views
<1> DEFINE w == [v EXCEPT !.move = 0]
<1>1. w \in Views
  BY ListTypes DEF Views
<1> HIDE DEF w
<1>2. Show(w, "Overview") \in Views
  BY <1>1, ShowTyped DEF Screens
<1> QED BY <1>2 DEF KeepMovement, w

LEMMA KeepCaseTyped ==
    ASSUME NEW v \in Views, NEW screen, NEW list PROVE KeepCase(v, screen, list) \in Views
<1> DEFINE w == [v EXCEPT !.case = 1]
<1>1. w \in Views
  BY DEF Views, Places
<1> HIDE DEF w
<1>2. Show(w, "Overview") \in Views
  BY <1>1, ShowTyped DEF Screens
<1> QED BY <1>1, <1>2 DEF KeepCase, w

LEMMA ReconcileTyped ==
    ASSUME NEW v \in Views, NEW c, NEW s PROVE Reconcile(v, c, s) \in Views
<1> DEFINE kept == KeepCase(KeepCase(KeepMovement(v, s), "CaseInbox", s.cases), "LineInbox", s.messages)
<1>1. kept \in Views
  BY KeepMovementTyped, KeepCaseTyped
<1> HIDE DEF kept
<1> DEFINE track == IF kept.track > Len(c.tracks) THEN 1 ELSE kept.track
           line == IF kept.line > Len(c.lines) THEN 1 ELSE kept.line
<1>2. track \in Places(Tracks) /\ line \in Places(Lines)
  BY <1>1 DEF Views, Places
<1>3. Reconcile(v, c, s) = [kept EXCEPT !.track = track, !.line = line]
  BY DEF Reconcile, kept
<1> HIDE DEF track, line
<1> QED BY <1>1, <1>2, <1>3 DEF Views

\* A list in order holds each member once and no other.
LEMMA InOrderTypes ==
    ASSUME NEW list, list \in Seq(Ids(list)), NEW kept \in SUBSET Ids(list), NEW some \in InOrder(list, kept)
    PROVE  /\ some \in Seq(kept) /\ Len(some) <= Len(list) /\ DOMAIN some = 1 .. Len(some)
           /\ kept = {some[n] : n \in DOMAIN some}
<1>1. Len(list) \in Nat /\ DOMAIN list = 1 .. Len(list) /\ list \in [1 .. Len(list) -> Ids(list)]
  OBVIOUS
<1>2. list \in Surjection(1 .. Len(list), Ids(list))
  BY <1>1 DEF Surjection, Ids
<1>3. IsFiniteSet(1 .. Len(list)) /\ Cardinality(1 .. Len(list)) = Len(list)
  BY <1>1, FS_Interval
<1>4. IsFiniteSet(Ids(list)) /\ Cardinality(Ids(list)) <= Len(list)
  BY <1>2, <1>3, FS_Surjection
<1>5. Cardinality(kept) \in Nat /\ Cardinality(Ids(list)) \in Nat /\ Cardinality(kept) <= Cardinality(Ids(list))
  BY <1>4, FS_Subset, FS_CardinalityType
<1>6. some \in [1 .. Cardinality(kept) -> kept] /\ \A x \in kept : \E n \in DOMAIN some : some[n] = x
  BY DEF InOrder
<1>7. some \in Seq(kept) /\ Len(some) = Cardinality(kept) /\ DOMAIN some = 1 .. Len(some)
  BY <1>5, <1>6
<1> QED BY <1>1, <1>4, <1>5, <1>6, <1>7

Moves == [Ids(Order) -> {"asks", "goes", "gone"}]
Stages == [Ids(Cases) -> {"none", "waiting", "approved", "rejected", "gone"}]
Ends == [Ids(Messages) -> {"none", "sent", "gone"}]

Servers ==
    [publication : 1 .. MaxPublication, assigned : BOOLEAN, known : BOOLEAN, up : BOOLEAN,
     language : Languages, moves : Moves, cases : Stages, messages : Ends, steps : Nat]

\* What a snapshot says of the cases and messages is what the server has.
LEMMA PictureTypes ==
    ASSUME server \in Servers, NEW picture \in Pictures
    PROVE  /\ picture \in Snapshots
           /\ \A i \in DOMAIN picture.cases :
                 /\ picture.cases[i].id \in Open
                 /\ picture.cases[i].status = server.cases[picture.cases[i].id]
                 /\ picture.cases[i].to = IF picture.cases[i].id \in Ours THEN "them" ELSE "us"
           /\ \A c \in Open : \E i \in DOMAIN picture.cases : picture.cases[i].id = c
           /\ \A i \in DOMAIN picture.messages :
                 picture.messages[i].id \in There /\ picture.messages[i].to = "us"
           /\ \A m \in There : \E i \in DOMAIN picture.messages : picture.messages[i].id = m
           /\ [i \in DOMAIN picture.moves |-> picture.moves[i].id] \in Trains
<1> PICK here \in InOrder(Order, Here), some \in InOrder(Cases, Open), told \in InOrder(Messages, There) :
      picture = [moves |-> [i \in DOMAIN here |-> [id |-> here[i], allowed |-> Allowed(server.moves[here[i]]),
                                                  track |-> Tracks[1]]],
                 cases |-> [i \in DOMAIN some |-> [id |-> some[i], status |-> server.cases[some[i]],
                                                  to |-> IF some[i] \in Ours THEN "them" ELSE "us"]],
                 messages |-> [i \in DOMAIN told |-> [id |-> told[i], to |-> "us"]]]
  BY DEF Pictures
<1>1. /\ here \in Seq(Here) /\ Len(here) <= Len(Order) /\ DOMAIN here = 1 .. Len(here)
  <2>1. Here \in SUBSET Ids(Order)
    BY DEF Here
  <2>2. Order \in Seq(Ids(Order))
    BY PanelAssumption
  <2> QED BY <2>1, <2>2, InOrderTypes
<1>2. /\ some \in Seq(Open) /\ Len(some) <= Len(Cases) /\ DOMAIN some = 1 .. Len(some)
      /\ Open = {some[n] : n \in DOMAIN some}
  <2>1. Open \in SUBSET Ids(Cases)
    BY DEF Open
  <2>2. Cases \in Seq(Ids(Cases))
    BY PanelAssumption
  <2> QED BY <2>1, <2>2, InOrderTypes
<1>3. /\ told \in Seq(There) /\ Len(told) <= Len(Messages) /\ DOMAIN told = 1 .. Len(told)
      /\ There = {told[n] : n \in DOMAIN told}
  <2>1. There \in SUBSET Ids(Messages)
    BY DEF There
  <2>2. Messages \in Seq(Ids(Messages))
    BY PanelAssumption
  <2>3. \A kept \in SUBSET Ids(Messages) : \A list \in InOrder(Messages, kept) :
          /\ list \in Seq(kept) /\ Len(list) <= Len(Messages) /\ DOMAIN list = 1 .. Len(list)
          /\ kept = {list[n] : n \in DOMAIN list}
    BY <2>2, InOrderTypes
  <2> QED BY <2>1, <2>3
<1>4. /\ Len(here) \in Nat /\ Len(some) \in Nat /\ Len(told) \in Nat
  BY <1>1, <1>2, <1>3
<1>5. picture.moves \in Rows /\ Len(picture.moves) = Len(here)
  <2>1. \A i \in 1 .. Len(here) :
          [id |-> here[i], allowed |-> Allowed(server.moves[here[i]]), track |-> Tracks[1]]
            \in [id : Ids(Order), allowed : SUBSET Allowances, track : {Tracks[1]}]
    <3> SUFFICES ASSUME NEW i \in 1 .. Len(here)
                 PROVE  here[i] \in Ids(Order) /\ Allowed(server.moves[here[i]]) \in SUBSET Allowances
      OBVIOUS
    <3> QED BY <1>1 DEF Here, Allowed, Allowances
  <2> QED BY <1>1, <1>4, <2>1 DEF Rows
<1>6. picture.cases \in OpenCases /\ Len(picture.cases) = Len(some)
  <2>1. \A i \in 1 .. Len(some) :
          [id |-> some[i], status |-> server.cases[some[i]], to |-> IF some[i] \in Ours THEN "them" ELSE "us"]
            \in [id : Ids(Cases), status : {"waiting", "approved", "rejected"}, to : {"us", "them"}]
    <3> SUFFICES ASSUME NEW i \in 1 .. Len(some)
                 PROVE  some[i] \in Ids(Cases) /\ server.cases[some[i]] \in {"waiting", "approved", "rejected"}
      OBVIOUS
    <3> QED BY <1>2 DEF Open
  <2> QED BY <1>2, <1>4, <2>1 DEF OpenCases
<1>7. picture.messages \in LineMessages /\ Len(picture.messages) = Len(told)
  <2>1. \A i \in 1 .. Len(told) : [id |-> told[i], to |-> "us"] \in [id : Ids(Messages), to : {"us"}]
    BY <1>3 DEF There
  <2> QED BY <1>3, <1>4, <2>1 DEF LineMessages
<1>8. picture \in Snapshots
  <2>1. picture \in [moves : Rows, cases : OpenCases, messages : LineMessages]
    BY <1>5, <1>6, <1>7
  <2> QED BY <1>1, <1>2, <1>3, <1>5, <1>6, <1>7, <2>1 DEF Snapshots
<1>9. [i \in DOMAIN picture.moves |-> picture.moves[i].id] \in Trains
  <2>1. [i \in DOMAIN picture.moves |-> picture.moves[i].id] = [i \in 1 .. Len(here) |-> here[i]]
    BY <1>1
  <2>2. \A i \in 1 .. Len(here) : here[i] \in Ids(Order)
    BY <1>1 DEF Here
  <2> QED BY <1>4, <2>1, <2>2 DEF Trains
<1>10. \A i \in DOMAIN picture.cases :
         /\ picture.cases[i].id \in Open
         /\ picture.cases[i].status = server.cases[picture.cases[i].id]
         /\ picture.cases[i].to = IF picture.cases[i].id \in Ours THEN "them" ELSE "us"
  BY <1>2
<1>11. \A c \in Open : \E i \in DOMAIN picture.cases : picture.cases[i].id = c
  BY <1>2
<1>12. \A i \in DOMAIN picture.messages :
         picture.messages[i].id \in There /\ picture.messages[i].to = "us"
  BY <1>3
<1>13. \A m \in There : \E i \in DOMAIN picture.messages : picture.messages[i].id = m
  BY <1>3
<1> QED BY <1>8, <1>9, <1>10, <1>11, <1>12, <1>13

-----------------------------------------------------------------------------
(* The state *)

Refusals == {[ok |-> "lost"], [ok |-> "unknown"], [ok |-> "no"]}
AssignmentAnswers ==
    [ok : {"yes"}, status : {"assigned", "awaiting"}, publication : 1 .. MaxPublication, language : Languages]
LanguageAnswers == [ok : {"yes"}, language : Languages]
ConfigAnswers == [ok : {"yes"}, publication : 1 .. MaxPublication]
\* The cases and messages at one moment.
Histories == [cases : Stages, messages : Ends]

SnapshotAnswers == [ok : {"yes"}, publication : 1 .. MaxPublication, snapshot : Snapshots, moment : Histories]

Requests ==
    [at : {"assignment"}, for : Assignments, fresh : BOOLEAN, answer : {None} \cup Refusals \cup AssignmentAnswers]
    \cup [at : {"language"}, for : Assignments, fresh : BOOLEAN, answer : {None} \cup Refusals \cup LanguageAnswers]
    \cup [at : {"config"}, for : Assignments, fresh : BOOLEAN, answer : {None} \cup Refusals \cup ConfigAnswers]
    \cup [at : {"snapshot"}, for : Assignments, fresh : BOOLEAN, answer : {None} \cup Refusals \cup SnapshotAnswers]

Pages ==
    [browser : BOOLEAN, connecting : {"no", "self", "create"}, assignment : Assignments, config : Configs,
     configFor : 0 .. MaxPublication, snapshot : Snapshots, of : 0 .. MaxPublication,
     language : Languages \cup {None}, dialog : {"no", "asking", "open"}, flash : BOOLEAN,
     behind : Screens \ Pickers]

\* The configuration held is the one of the publication it is held for.
OwnConfig(p) == p.configFor # 0 => p.config = ConfigOf(p.configFor)

Memories ==
    [seeded : BOOLEAN, cases : SUBSET (Ids(Cases) \X {"waiting", "approved", "rejected"}),
     messages : SUBSET Ids(Messages)]

IsCommand(c) ==
    /\ c = [action |-> c.action, of |-> c.of, to |-> c.to, publication |-> c.publication,
            matches |-> c.matches, answer |-> c.answer]
    /\ c.publication \in 0 .. MaxPublication /\ c.matches \in Trains
    /\ c.answer \in {None, "lost", "done", "rejected"}

IsDrawing(l) == l = [shows |-> l.shows, flashed |-> l.flashed, remapped |-> l.remapped]

Typed ==
    /\ server \in Servers
    /\ page \in Pages /\ OwnConfig(page)
    /\ view \in Views
    /\ memory \in Memories
    /\ asked \in [Refreshes -> {None} \cup Requests]
    /\ sent = None \/ IsCommand(sent)
    /\ IsDrawing(lcd)

LEMMA TypedGives == Typed => TypeOK
<1> SUFFICES ASSUME Typed PROVE TypeOK
  OBVIOUS
<1>1. page.connecting \in {"no", "self", "create"} /\ page.dialog \in {"no", "asking", "open"}
  BY DEF Typed, Pages
<1>2. page.configFor \in 0 .. MaxPublication /\ page.of \in 0 .. MaxPublication
  BY DEF Typed, Pages
<1>3. page.configFor # 0 => page.config = ConfigOf(page.configFor)
  BY DEF Typed, OwnConfig
<1>4. /\ view.move \in 0 .. Len(Order) /\ view.case \in {1} \cup DOMAIN Cases \cup DOMAIN Messages
      /\ view.track \in {1} \cup DOMAIN Tracks /\ view.line \in {1} \cup DOMAIN Lines
      /\ view.number \in Numbers \cup {None}
  BY DEF Typed, Views, Places
<1>5. sent # None => sent.publication \in 0 .. MaxPublication
  BY DEF Typed, IsCommand
<1> QED BY <1>1, <1>2, <1>3, <1>4, <1>5 DEF TypeOK

LEMMA NothingTyped ==
    /\ NoConfig \in Configs /\ NoSnapshot \in Snapshots /\ NoAssignment \in Assignments
    /\ StartView \in Views /\ Deaf \in Memories
<1>1. NoSnapshot \in Snapshots
  <2>1. << >> \in Rows /\ << >> \in OpenCases /\ << >> \in LineMessages /\ Len(<< >>) = 0
    BY DEF Rows, OpenCases, LineMessages
  <2> QED BY <2>1, ListTypes DEF Snapshots, NoSnapshot
<1>2. NoAssignment \in Assignments
  BY PanelAssumption DEF NoAssignment, Assignments
<1>3. StartView \in Views
  <2>1. 0 \in 0 .. Len(Order) /\ 1 \in Places(Tracks) /\ 1 \in Places(Lines)
        /\ 1 \in Places(Cases) \cup Places(Messages) /\ 1 \in Nat /\ "Overview" \in Screens
    BY ListTypes DEF Places, Screens
  <2> QED BY <2>1, NoTrains DEF StartView, Views
<1>4. Deaf \in Memories
  BY DEF Deaf, Memories
<1> QED BY <1>1, <1>2, <1>3, <1>4 DEF Configs

LEMMA InitTyped == Init => Typed
<1> SUFFICES ASSUME Init PROVE Typed
  OBVIOUS
<1>1. server \in Servers
  <2> PICK traffic \in Traffics :
         server = [publication |-> 1, assigned |-> TRUE, known |-> TRUE, up |-> TRUE,
                   language |-> CHOOSE l \in Languages : TRUE,
                   moves |-> traffic.moves, cases |-> traffic.cases, messages |-> traffic.messages,
                   steps |-> traffic.steps]
    BY DEF Init
  <2>1. traffic.moves \in Moves /\ traffic.cases \in Stages /\ traffic.messages \in Ends /\ traffic.steps \in Nat
    BY PanelAssumption DEF Moves, Stages, Ends
  <2>2. (CHOOSE l \in Languages : TRUE) \in Languages /\ 1 \in 1 .. MaxPublication
    BY PanelAssumption
  <2> QED BY <2>1, <2>2 DEF Servers
<1>2. page \in Pages /\ OwnConfig(page)
  <2>1. page = [browser |-> FALSE, connecting |-> "self",
                assignment |-> NoAssignment, config |-> NoConfig, configFor |-> 0,
                snapshot |-> NoSnapshot, of |-> 0, language |-> None, dialog |-> "no",
                flash |-> FALSE, behind |-> "Overview"]
    BY DEF Init
  <2>2. 0 \in 0 .. MaxPublication /\ "Overview" \in Screens \ Pickers
    BY PanelAssumption DEF Screens, Pickers
  <2> QED BY <2>1, <2>2, NothingTyped DEF Pages, OwnConfig
<1>3. view \in Views /\ memory \in Memories
  BY NothingTyped DEF Init
<1>4. asked \in [Refreshes -> {None} \cup Requests]
  BY DEF Init
<1>5. sent = None
  BY DEF Init
<1>6. IsDrawing(lcd)
  BY DEF Init, Drawn, IsDrawing
<1> QED BY <1>1, <1>2, <1>3, <1>4, <1>5, <1>6 DEF Typed

-----------------------------------------------------------------------------
(* The parts of a step *)

LEMMA AskTyped ==
    ASSUME Typed, NEW r \in Refreshes, NEW at \in {"assignment", "language", "config", "snapshot"},
           NEW for \in Assignments, Ask(r, at, for)
    PROVE  asked' \in [Refreshes -> {None} \cup Requests]
<1> DEFINE answer == IF page'.browser THEN None ELSE [ok |-> "lost"]
           request == [at |-> at, for |-> for, fresh |-> TRUE, answer |-> answer]
<1>1. answer \in {None} \cup Refusals
  BY DEF Refusals
<1>2. request \in Requests
  <2> HIDE DEF answer
  <2> QED BY <1>1 DEF Requests
<1>3. asked' = [asked EXCEPT ![r] = request]
  BY DEF Ask
<1> HIDE DEF request
<1> QED BY <1>2, <1>3 DEF Typed

LEMMA DoneTyped ==
    ASSUME Typed, NEW r \in Refreshes, Done(r)
    PROVE  asked' \in [Refreshes -> {None} \cup Requests]
BY DEF Typed, Done

LEMMA NewUITyped ==
    ASSUME Typed PROVE NewUI(asked) \in [Refreshes -> {None} \cup Requests]
<1> SUFFICES ASSUME NEW r \in Refreshes, asked[r] # None
             PROVE  [asked[r] EXCEPT !.fresh = FALSE] \in Requests
  BY DEF NewUI
<1>1. asked[r] \in Requests
  BY DEF Typed
<1> QED BY <1>1 DEF Requests

LEMMA ClearedTyped ==
    ASSUME NEW p \in Pages
    PROVE  Cleared(p) \in Pages /\ OwnConfig(Cleared(p)) /\ Cleared(p).snapshot = NoSnapshot
<1>1. 0 \in 0 .. MaxPublication
  BY PanelAssumption
<1>2. Cleared(p) = [p EXCEPT !.configFor = 0, !.config = NoConfig, !.snapshot = NoSnapshot, !.of = 0]
  BY DEF Cleared
<1>3. Cleared(p).configFor = 0 /\ Cleared(p).snapshot = NoSnapshot
  BY <1>2 DEF Pages
<1>4. Cleared(p) \in Pages
  BY <1>1, <1>2, NothingTyped DEF Pages
<1> QED BY <1>3, <1>4 DEF OwnConfig

LEMMA DrawTyped ==
    ASSUME Draw
    PROVE  /\ IsDrawing(lcd)'
           /\ lcd'.shows = OnDisplay(view', page'.config, page'.snapshot)
BY DEF Draw, Drawn, IsDrawing

LEMMA UnassignedTyped ==
    ASSUME Typed, NEW r \in Refreshes, NEW p \in Pages, Unassigned(r, p) PROVE Typed'
<1>1. page' \in Pages /\ OwnConfig(page)'
  BY ClearedTyped DEF Unassigned, OwnConfig
<1>2. view' \in Views
  BY ShowTyped DEF Unassigned, Screens, Typed
<1>3. asked' \in [Refreshes -> {None} \cup Requests]
  BY DoneTyped DEF Unassigned
<1>4. (IsDrawing(lcd))'
  BY DrawTyped DEF Unassigned
<1>5. UNCHANGED <<server, memory, sent>>
  BY DEF Unassigned
<1> QED BY <1>1, <1>2, <1>3, <1>4, <1>5 DEF Typed, IsCommand

LEMMA ContinueTyped ==
    ASSUME Typed, NEW r \in Refreshes, NEW p \in Pages, OwnConfig(p), NEW assignment \in Assignments,
           Continue(r, p, assignment)
    PROVE  Typed'
<1>1. CASE p.configFor = assignment.publication
  <2>1. page' = p /\ Ask(r, "snapshot", assignment) /\ UNCHANGED <<server, view, lcd, memory, sent>>
    BY <1>1 DEF Continue
  <2>2. asked' \in [Refreshes -> {None} \cup Requests]
    BY <2>1, AskTyped
  <2> QED BY <2>1, <2>2 DEF Typed, IsCommand, OwnConfig
<1>2. CASE p.configFor # assignment.publication
  <2>1. /\ page' = Cleared(p) /\ view' = Show(view, "LoadingStation") /\ Ask(r, "config", assignment)
        /\ UNCHANGED <<server, memory, lcd, sent>>
    BY <1>2 DEF Continue
  <2>2. page' \in Pages /\ OwnConfig(page)'
    BY <2>1, ClearedTyped DEF OwnConfig
  <2>3. view' \in Views
    BY <2>1, ShowTyped DEF Screens, Typed
  <2>4. asked' \in [Refreshes -> {None} \cup Requests]
    BY <2>1, AskTyped
  <2> QED BY <2>1, <2>2, <2>3, <2>4 DEF Typed, IsCommand
<1> QED BY <1>1, <1>2

-----------------------------------------------------------------------------
(* The steps *)

LEMMA ConnectedTyped ==
    ASSUME Typed, Connected PROVE Typed'
<1>1. page' \in Pages /\ OwnConfig(page)'
  BY DEF Connected, Typed, Pages, OwnConfig
<1>2. server' \in Servers
  BY DEF Connected, Typed, Servers
<1>3. asked' \in [Refreshes -> {None} \cup Requests]
  BY NewUITyped DEF Connected, Typed
<1>4. UNCHANGED <<view, memory, lcd, sent>>
  BY DEF Connected
<1> QED BY <1>1, <1>2, <1>3, <1>4 DEF Typed, IsCommand, OwnConfig

LEMMA StartTyped ==
    ASSUME Typed, StartClicked PROVE Typed'
<1>1. page' \in Pages /\ OwnConfig(page)'
  BY DEF StartClicked, Typed, Pages, OwnConfig
<1>2. UNCHANGED <<server, view, memory, lcd, asked, sent>>
  BY DEF StartClicked
<1> QED BY <1>1, <1>2 DEF Typed, IsCommand, OwnConfig

LEMMA RefreshTyped ==
    ASSUME Typed, NEW r \in Refreshes, Refresh(r) PROVE Typed'
<1>1. CASE page.browser
  <2>1. UNCHANGED <<server, page, view, memory, lcd, sent>> /\ Ask(r, "assignment", NoAssignment)
    BY <1>1 DEF Refresh
  <2>2. asked' \in [Refreshes -> {None} \cup Requests]
    BY <2>1, NothingTyped, AskTyped
  <2> QED BY <2>1, <2>2 DEF Typed, IsCommand, OwnConfig
<1>2. CASE ~page.browser
  <2>1. [page EXCEPT !.assignment = NoAssignment] \in Pages
    BY NothingTyped DEF Typed, Pages
  <2>2. Unassigned(r, [page EXCEPT !.assignment = NoAssignment])
    BY <1>2 DEF Refresh
  <2> QED BY <2>1, <2>2, UnassignedTyped
<1> QED BY <1>1, <1>2

LEMMA ServedTyped ==
    ASSUME Typed, NEW r \in Refreshes, Served(r) PROVE Typed'
<1> PICK picture \in Pictures :
      asked' = [asked EXCEPT ![r].answer =
         IF ~server.up THEN [ok |-> "lost"]
         ELSE IF ~server.known THEN [ok |-> "unknown"]
         ELSE IF asked[r].at = "assignment"
              THEN [ok |-> "yes", status |-> IF server.assigned THEN "assigned" ELSE "awaiting",
                    publication |-> server.publication, language |-> server.language]
         ELSE IF asked[r].at = "language" THEN [ok |-> "yes", language |-> server.language]
         ELSE IF ~server.assigned THEN [ok |-> "no"]
         ELSE IF asked[r].at = "config" THEN [ok |-> "yes", publication |-> server.publication]
         ELSE [ok |-> "yes", publication |-> server.publication, snapshot |-> picture, moment |-> Now]]
  BY DEF Served
<1> DEFINE answer ==
         IF ~server.up THEN [ok |-> "lost"]
         ELSE IF ~server.known THEN [ok |-> "unknown"]
         ELSE IF asked[r].at = "assignment"
              THEN [ok |-> "yes", status |-> IF server.assigned THEN "assigned" ELSE "awaiting",
                    publication |-> server.publication, language |-> server.language]
         ELSE IF asked[r].at = "language" THEN [ok |-> "yes", language |-> server.language]
         ELSE IF ~server.assigned THEN [ok |-> "no"]
         ELSE IF asked[r].at = "config" THEN [ok |-> "yes", publication |-> server.publication]
         ELSE [ok |-> "yes", publication |-> server.publication, snapshot |-> picture, moment |-> Now]
<1>1. asked' = [asked EXCEPT ![r] = [asked[r] EXCEPT !.answer = answer]]
  OBVIOUS
<1>2. server.publication \in 1 .. MaxPublication /\ server.language \in Languages /\ picture \in Snapshots /\ Now \in Histories
  BY PictureTypes DEF Typed, Servers, Now, Histories
<1>3. asked[r] \in Requests
  BY DEF Served, Typed
<1>4. /\ asked[r].at = "assignment" => answer \in Refusals \cup AssignmentAnswers
      /\ asked[r].at = "language" => answer \in Refusals \cup LanguageAnswers
      /\ asked[r].at = "config" => answer \in Refusals \cup ConfigAnswers
      /\ asked[r].at = "snapshot" => answer \in Refusals \cup SnapshotAnswers
  BY <1>2 DEF Refusals, AssignmentAnswers, LanguageAnswers, ConfigAnswers, SnapshotAnswers
<1> HIDE DEF answer
<1>5. [asked[r] EXCEPT !.answer = answer] \in Requests
  <2>1. CASE asked[r].at = "assignment"
    BY <1>3, <1>4, <2>1 DEF Requests
  <2>2. CASE asked[r].at = "language"
    BY <1>3, <1>4, <2>2 DEF Requests
  <2>3. CASE asked[r].at = "config"
    BY <1>3, <1>4, <2>3 DEF Requests
  <2>4. CASE asked[r].at = "snapshot"
    BY <1>3, <1>4, <2>4 DEF Requests
  <2>5. asked[r].at \in {"assignment", "language", "config", "snapshot"}
    BY <1>3 DEF Requests
  <2> QED BY <2>1, <2>2, <2>3, <2>4, <2>5
<1>6. asked' \in [Refreshes -> {None} \cup Requests]
  BY <1>1, <1>5 DEF Typed
<1>7. UNCHANGED <<server, page, view, memory, lcd, sent>>
  BY DEF Served
<1> QED BY <1>6, <1>7 DEF Typed, IsCommand, OwnConfig

\* What the answer to each request is made of.
LEMMA AnswerTypes ==
    ASSUME Typed, NEW r \in Refreshes, asked[r] # None
    PROVE  /\ asked[r].for \in Assignments
           /\ Waiting(r, "assignment") => Answer(r) \in Refusals \cup AssignmentAnswers
           /\ Waiting(r, "language") => Answer(r) \in Refusals \cup LanguageAnswers
           /\ Waiting(r, "config") => Answer(r) \in Refusals \cup ConfigAnswers
           /\ Waiting(r, "snapshot") => Answer(r) \in Refusals \cup SnapshotAnswers
<1>1. asked[r] \in Requests
  BY DEF Typed
<1>2. asked[r].for \in Assignments
  BY <1>1 DEF Requests
<1>3. Waiting(r, "assignment") => Answer(r) \in Refusals \cup AssignmentAnswers
  BY <1>1 DEF Requests, Waiting, Answer
<1>4. Waiting(r, "language") => Answer(r) \in Refusals \cup LanguageAnswers
  BY <1>1 DEF Requests, Waiting, Answer
<1>5. Waiting(r, "config") => Answer(r) \in Refusals \cup ConfigAnswers
  BY <1>1 DEF Requests, Waiting, Answer
<1>6. Waiting(r, "snapshot") => Answer(r) \in Refusals \cup SnapshotAnswers
  BY <1>1 DEF Requests, Waiting, Answer
<1> QED BY <1>2, <1>3, <1>4, <1>5, <1>6

LEMMA AssignmentTyped ==
    ASSUME Typed, NEW r \in Refreshes, Waiting(r, "assignment") PROVE AssignmentOf(Answer(r)) \in Assignments
<1>1. Answer(r) \in Refusals \cup AssignmentAnswers
  BY AnswerTypes DEF Waiting
<1>2. CASE Answer(r).ok = "yes"
  <2>1. Answer(r) \in AssignmentAnswers
    BY <1>1, <1>2 DEF Refusals
  <2> QED BY <1>2, <2>1 DEF AssignmentAnswers, Assignments, AssignmentOf
<1>3. CASE Answer(r).ok # "yes"
  BY <1>3, NothingTyped DEF AssignmentOf
<1> QED BY <1>2, <1>3

\* Another assignment leaves the configuration and the snapshot of the page.
LEMMA OtherAssignment ==
    ASSUME Typed, NEW assignment \in Assignments, NEW answer
    PROVE  LET p == [page EXCEPT !.assignment = assignment, !.browser = @ /\ answer.ok # "unknown"]
           IN  p \in Pages /\ OwnConfig(p) /\ p.config = page.config /\ p.snapshot = page.snapshot
<1> DEFINE browser == page.browser /\ answer.ok # "unknown"
           p == [page EXCEPT !.assignment = assignment, !.browser = browser]
<1>1. browser \in BOOLEAN
  OBVIOUS
<1> HIDE DEF browser
<1>2. p \in Pages
  BY <1>1 DEF Typed, Pages
<1>3. p.configFor = page.configFor /\ p.config = page.config /\ p.snapshot = page.snapshot
  BY DEF Typed, Pages
<1> HIDE DEF p
<1>4. p \in Pages /\ OwnConfig(p) /\ p.config = page.config /\ p.snapshot = page.snapshot
  BY <1>2, <1>3 DEF Typed, OwnConfig
<1>5. p = [page EXCEPT !.assignment = assignment, !.browser = @ /\ answer.ok # "unknown"]
  BY DEF p, browser
<1> QED BY <1>4, <1>5

LEMMA LanguageAnswered ==
    ASSUME Typed, NEW r \in Refreshes, AfterLanguage(r)
    PROVE  /\ (IF Answer(r).ok = "lost" THEN NoAssignment ELSE page.assignment) \in Assignments
           /\ (IF Answer(r).ok = "yes" /\ asked[r].fresh THEN Answer(r).language ELSE page.language)
                 \in Languages \cup {None}
<1>1. (IF Answer(r).ok = "lost" THEN NoAssignment ELSE page.assignment) \in Assignments
  BY NothingTyped DEF Typed, Pages
<1>2. Answer(r) \in Refusals \cup LanguageAnswers
  BY AnswerTypes DEF AfterLanguage, Waiting
<1>3. page.language \in Languages \cup {None}
  BY DEF Typed, Pages
<1>4. (IF Answer(r).ok = "yes" /\ asked[r].fresh THEN Answer(r).language ELSE page.language) \in Languages \cup {None}
  BY <1>2, <1>3 DEF Refusals, LanguageAnswers
<1> QED BY <1>1, <1>4

LEMMA AfterAssignmentTyped ==
    ASSUME Typed, NEW r \in Refreshes, AfterAssignment(r) PROVE Typed'
<1> DEFINE assignment == AssignmentOf(Answer(r))
           p == [page EXCEPT !.assignment = assignment, !.browser = @ /\ Answer(r).ok # "unknown"]
<1>1. assignment \in Assignments
  BY AssignmentTyped DEF AfterAssignment
<1>2. p \in Pages /\ OwnConfig(p)
  BY <1>1, OtherAssignment
<1> HIDE DEF assignment, p
<1>3. CASE assignment.language \notin {None, page.language}
  <2>1. page' = p /\ Ask(r, "language", assignment) /\ UNCHANGED <<server, view, memory, lcd, sent>>
    BY <1>3 DEF AfterAssignment, assignment, p
  <2>2. asked' \in [Refreshes -> {None} \cup Requests]
    BY <1>1, <2>1, AskTyped
  <2> QED BY <1>2, <2>1, <2>2 DEF Typed, IsCommand, OwnConfig
<1>4. CASE Unassigned(r, p)
  BY <1>2, <1>4, UnassignedTyped
<1>5. CASE Continue(r, p, assignment)
  BY <1>1, <1>2, <1>5, ContinueTyped
<1> QED BY <1>3, <1>4, <1>5 DEF AfterAssignment, assignment, p

LEMMA AfterLanguageTyped ==
    ASSUME Typed, NEW r \in Refreshes, AfterLanguage(r) PROVE Typed'
<1> DEFINE assignment == IF Answer(r).ok = "lost" THEN NoAssignment ELSE page.assignment
           language == IF Answer(r).ok = "yes" /\ asked[r].fresh THEN Answer(r).language ELSE page.language
           p == [page EXCEPT !.assignment = assignment, !.language = language]
<1>1. assignment \in Assignments /\ language \in Languages \cup {None}
  BY LanguageAnswered
<1>3. /\ AfterLanguage(r) => IF p.assignment.status # "assigned" THEN Unassigned(r, p)
                              ELSE Continue(r, p, p.assignment)
  BY DEF AfterLanguage
<1> HIDE DEF assignment, language
<1>4. p \in Pages /\ OwnConfig(p) /\ p.assignment \in Assignments
  <2>1. p \in Pages /\ p.assignment = assignment
    BY <1>1 DEF Typed, Pages
  <2>2. p.configFor = page.configFor /\ p.config = page.config
    BY DEF Typed, Pages
  <2> HIDE DEF p
  <2> QED BY <1>1, <2>1, <2>2 DEF Typed, OwnConfig
<1> HIDE DEF p
<1> QED BY <1>3, <1>4, UnassignedTyped, ContinueTyped

LEMMA AfterConfigTyped ==
    ASSUME Typed, NEW r \in Refreshes, AfterConfig(r) PROVE Typed'
<1>0. Answer(r) \in Refusals \cup ConfigAnswers /\ asked[r].for \in Assignments
  BY AnswerTypes DEF AfterConfig, Waiting
<1>1. CASE SameScope(Answer(r), asked[r].for)
  <2> DEFINE n == asked[r].for.publication
  <2>1. n \in 1 .. MaxPublication /\ n \in 0 .. MaxPublication /\ Answer(r).publication = n
    BY <1>0, <1>1, PanelAssumption DEF Refusals, ConfigAnswers, SameScope
  <2>2. /\ page' = [page EXCEPT !.config = ConfigOf(n), !.configFor = n]
        /\ memory' = Deaf /\ Ask(r, "snapshot", asked[r].for) /\ UNCHANGED <<server, view, sent>>
        /\ lcd' = [lcd EXCEPT !.remapped = @ \/ view.screen \in Pickers]
    BY <1>1, <2>1 DEF AfterConfig
  <2> HIDE DEF n
  <2>3. ConfigOf(n) \in Configs
    BY <2>1 DEF Configs
  <2>4. page' \in Pages /\ page'.configFor = n /\ page'.config = ConfigOf(n)
    BY <2>1, <2>2, <2>3 DEF Typed, Pages
  <2>5. asked' \in [Refreshes -> {None} \cup Requests]
    BY <1>0, <2>2, AskTyped
  <2>6. IsDrawing(lcd)'
    BY <2>2 DEF Typed, IsDrawing
  <2> QED BY <2>2, <2>4, <2>5, <2>6, NothingTyped DEF Typed, IsCommand, OwnConfig
<1>2. CASE ~SameScope(Answer(r), asked[r].for)
  <2>1. Done(r) /\ UNCHANGED <<server, page, view, memory, sent>> /\ Draw
    BY <1>2 DEF AfterConfig
  <2>2. asked' \in [Refreshes -> {None} \cup Requests]
    BY <2>1, DoneTyped
  <2>3. (IsDrawing(lcd))'
    BY <2>1, DrawTyped
  <2> QED BY <2>1, <2>2, <2>3 DEF Typed, IsCommand, OwnConfig
<1> QED BY <1>1, <1>2

LEMMA Members ==
    ASSUME NEW S, NEW list \in Seq(S) PROVE DOMAIN list = 1 .. Len(list) /\ \A i \in DOMAIN list : list[i] \in S
OBVIOUS

LEMMA ObserveTyped ==
    ASSUME NEW m, NEW snapshot \in Snapshots
    PROVE  /\ Observe(m, snapshot).memory = [seeded |-> TRUE, cases |-> CasesOf(snapshot), messages |-> MessagesOf(snapshot)]
           /\ Observe(m, snapshot).memory \in Memories
<1>1. Observe(m, snapshot).memory = [seeded |-> TRUE, cases |-> CasesOf(snapshot), messages |-> MessagesOf(snapshot)]
  BY DEF Observe
<1>2. \A i \in DOMAIN snapshot.cases :
        snapshot.cases[i].id \in Ids(Cases) /\ snapshot.cases[i].status \in {"waiting", "approved", "rejected"}
  <2>1. snapshot.cases \in Seq([id : Ids(Cases), status : {"waiting", "approved", "rejected"}, to : {"us", "them"}])
    BY SnapshotTypes DEF OpenCases
  <2>2. \A i \in DOMAIN snapshot.cases :
          snapshot.cases[i] \in [id : Ids(Cases), status : {"waiting", "approved", "rejected"}, to : {"us", "them"}]
    BY <2>1, Members, Zenon
  <2> QED BY <2>2
<1>3. \A i \in DOMAIN snapshot.messages : snapshot.messages[i].id \in Ids(Messages)
  <2>1. snapshot.messages \in Seq([id : Ids(Messages), to : {"us"}])
    BY SnapshotTypes DEF LineMessages
  <2>2. \A i \in DOMAIN snapshot.messages : snapshot.messages[i] \in [id : Ids(Messages), to : {"us"}]
    BY <2>1, Members, Zenon
  <2> QED BY <2>2
<1>4. CasesOf(snapshot) \in SUBSET (Ids(Cases) \X {"waiting", "approved", "rejected"})
  BY <1>2 DEF CasesOf
<1>5. MessagesOf(snapshot) \in SUBSET Ids(Messages)
  BY <1>3 DEF MessagesOf
<1> QED BY <1>1, <1>4, <1>5 DEF Memories

LEMMA AfterSnapshotTyped ==
    ASSUME Typed, NEW r \in Refreshes, AfterSnapshot(r) PROVE Typed'
<1>0. Answer(r) \in Refusals \cup SnapshotAnswers
  BY AnswerTypes DEF AfterSnapshot, Waiting
<1>1. asked' \in [Refreshes -> {None} \cup Requests]
  BY DoneTyped DEF AfterSnapshot
<1>2. UNCHANGED <<server, sent>>
  BY DEF AfterSnapshot
<1>3. CASE Answer(r).ok = "lost"
  <2>1. UNCHANGED <<page, view, memory, lcd>>
    BY <1>3 DEF AfterSnapshot
  <2> QED BY <1>1, <1>2, <2>1 DEF Typed, IsCommand, OwnConfig
<1>4. CASE Answer(r).ok \in {"no", "unknown"}
  <2>1. view' = Show(view, "ServerGone") /\ page' = page /\ Draw /\ memory' = memory
    BY <1>4 DEF AfterSnapshot
  <2>2. view' \in Views
    BY <2>1, ShowTyped DEF Typed, Screens
  <2>3. (IsDrawing(lcd))'
    BY <2>1, DrawTyped
  <2> QED BY <1>1, <1>2, <2>1, <2>2, <2>3 DEF Typed, IsCommand, OwnConfig
<1>5. CASE Answer(r).ok = "yes" /\ ~SameScope(Answer(r), asked[r].for)
  <2>1. Remapped(r)
    BY <1>5 DEF AfterSnapshot
  <2>2. page' \in Pages /\ OwnConfig(page)'
    <3>1. page' = [page EXCEPT !.configFor = 0] /\ 0 \in 0 .. MaxPublication /\ page \in Pages
      BY <2>1, PanelAssumption DEF Remapped, Typed
    <3>2. page' \in Pages /\ page'.configFor = 0
      BY <3>1 DEF Pages
    <3> QED BY <3>2 DEF OwnConfig
  <2>3. view' \in Views /\ memory' = memory
    BY <2>1, ShowTyped DEF Remapped, Typed, Screens
  <2>4. (IsDrawing(lcd))'
    BY <2>1, DrawTyped DEF Remapped
  <2> QED BY <1>1, <1>2, <2>2, <2>3, <2>4 DEF Typed, IsCommand
<1>6. CASE Answer(r).ok = "yes" /\ SameScope(Answer(r), asked[r].for)
  <2>1. Taken(r)
    BY <1>6 DEF AfterSnapshot
  <2>2. Answer(r).snapshot \in Snapshots /\ Answer(r).publication \in 0 .. MaxPublication
    BY <1>0, <1>6 DEF Refusals, SnapshotAnswers
  <2>3. page' \in Pages /\ OwnConfig(page)'
    BY <2>1, <2>2 DEF Taken, Typed, Pages, OwnConfig
  <2>4. memory' \in Memories
    BY <2>1, <2>2, ObserveTyped DEF Taken
  <2>5. view' \in Views
    <3> DEFINE shown == IF view.screen \in Booting THEN Show(view, "Overview") ELSE view
    <3>1. shown \in Views
      BY ShowTyped DEF Typed, Screens
    <3>2. view' = Reconcile(shown, page.config, Answer(r).snapshot)
      BY <2>1 DEF Taken
    <3> HIDE DEF shown
    <3> QED BY <3>1, <3>2, ReconcileTyped
  <2>6. (IsDrawing(lcd))'
    BY <2>1, DrawTyped DEF Taken
  <2> QED BY <1>1, <1>2, <2>3, <2>4, <2>5, <2>6 DEF Typed, IsCommand
<1> QED BY <1>0, <1>3, <1>4, <1>5, <1>6 DEF Refusals, SnapshotAnswers

LEMMA UnlockTyped ==
    ASSUME Typed, Unlock PROVE Typed'
<1>1. view' \in Views
  BY DEF Unlock, Typed, Views
<1>2. UNCHANGED <<server, page, memory, lcd, asked, sent>>
  BY DEF Unlock
<1> QED BY <1>1, <1>2 DEF Typed, IsCommand, OwnConfig

\* What a pressed key does: it shows something, or sends.
LEMMA PressedKey ==
    ASSUME Typed, NEW key \in Keys, NEW shorter \in Numbers \cup {None}, PressKey(key, shorter)
    PROVE  /\ UNCHANGED <<server, memory, asked, news>> /\ Draw
           /\ \/ /\ view' \in Views /\ UNCHANGED <<page, sent>>
                 /\ view'.screen \in Pickers => view.screen \in Pickers \/ page.snapshot.moves # << >>
              \/ /\ view' = Show(view, "Sending") /\ view.screen # "LoadingStation"
                 /\ page' = [page EXCEPT !.behind = IF view.screen \in Pickers THEN "Detail" ELSE view.screen]
                 /\ Reads(OnDisplay(view, page.config, page.snapshot), sent')
                 /\ IsCommand(sent')
<1> DEFINE result == Press(key, view, page.config, page.snapshot, shorter)
<1>1. Sound(result, view, page.config, page.snapshot)
  BY PressIsSound DEF Typed, Pages
<1>2. UNCHANGED <<server, memory, asked, news>>
  BY DEF PressKey
<1>3. \/ result.outcome = "Redraw" /\ view' = result.view /\ UNCHANGED <<page, sent>> /\ Draw
      \/ /\ result.outcome = "Send"
         /\ view' = Show(result.view, "Sending")
         /\ page' = [page EXCEPT !.behind = IF view.screen \in Pickers THEN "Detail" ELSE view.screen]
         /\ sent' = [action |-> result.command.action, of |-> result.command.of,
                     to |-> result.command.to, publication |-> page.of, matches |-> << >>,
                     answer |-> IF page.browser THEN None ELSE "lost"]
         /\ Draw
  BY DEF PressKey
<1> HIDE DEF result
<1>4. result # Ignored(view)
  BY <1>3 DEF Ignored
<1>5. CASE result.outcome = "Redraw"
  BY <1>1, <1>2, <1>3, <1>4, <1>5 DEF Sound
<1>6. CASE result.outcome = "Send"
  <2>1. /\ result.view = view /\ view.screen # "LoadingStation"
        /\ Reads(OnDisplay(view, page.config, page.snapshot), result.command)
    BY <1>1, <1>4, <1>6 DEF Sound
  <2>2. Reads(OnDisplay(view, page.config, page.snapshot), sent')
    <3>1. /\ sent'.action = result.command.action /\ sent'.of = result.command.of
          /\ sent'.to = result.command.to
      BY <1>3, <1>6
    <3> QED BY <2>1, <3>1 DEF Reads
  <2>3. IsCommand(sent')
    BY <1>3, <1>6, NoTrains DEF IsCommand, Typed, Pages
  <2> QED BY <1>2, <1>3, <1>6, <2>1, <2>2, <2>3
<1> QED BY <1>3, <1>5, <1>6

LEMMA PressKeyTyped ==
    ASSUME Typed, NEW key \in Keys, NEW shorter \in Numbers \cup {None}, PressKey(key, shorter) PROVE Typed'
<1>1. UNCHANGED <<server, memory, asked>> /\ Draw
  BY PressedKey
<1>2. (IsDrawing(lcd))'
  BY <1>1, DrawTyped
<1>3. CASE view' \in Views /\ UNCHANGED <<page, sent>>
  BY <1>1, <1>2, <1>3 DEF Typed, IsCommand, OwnConfig
<1>4. CASE /\ view' = Show(view, "Sending")
           /\ page' = [page EXCEPT !.behind = IF view.screen \in Pickers THEN "Detail" ELSE view.screen]
           /\ IsCommand(sent')
  <2> DEFINE behind == IF view.screen \in Pickers THEN "Detail" ELSE view.screen
  <2>1. behind \in Screens \ Pickers
    BY DEF Typed, Views, Screens, Pickers
  <2>2. page' = [page EXCEPT !.behind = behind]
    BY <1>4
  <2> HIDE DEF behind
  <2>3. page' \in Pages /\ OwnConfig(page)'
    BY <2>1, <2>2 DEF Typed, Pages, OwnConfig
  <2>4. view' \in Views
    BY <1>4, ShowTyped DEF Typed, Screens
  <2> QED BY <1>1, <1>2, <1>4, <2>3, <2>4 DEF Typed, IsCommand
<1> QED BY <1>3, <1>4, PressedKey

LEMMA CommandServedTyped ==
    ASSUME Typed, CommandServed PROVE Typed'
<1> PICK heard \in BOOLEAN, picture \in Pictures :
      LET done == /\ server.up /\ server.known /\ server.assigned
                  /\ sent.publication = server.publication /\ Carried(sent)
      IN  /\ sent' = [sent EXCEPT !.answer = IF ~server.up \/ ~heard THEN "lost" ELSE IF done THEN "done" ELSE "rejected",
                                  !.matches = IF sent.action = "train.lookup"
                                              THEN [i \in DOMAIN picture.moves |-> picture.moves[i].id] ELSE << >>]
          /\ server' = IF done THEN After(sent) ELSE server
  BY DEF CommandServed
<1> DEFINE matches == IF sent.action = "train.lookup"
                      THEN [i \in DOMAIN picture.moves |-> picture.moves[i].id] ELSE << >>
<1>1. matches \in Trains
  BY NoTrains, PictureTypes DEF Typed
<1>2. PICK answer \in {"lost", "done", "rejected"} : sent' = [sent EXCEPT !.answer = answer, !.matches = matches]
  OBVIOUS
<1> HIDE DEF matches
<1>3. IsCommand(sent)'
  <2>1. IsCommand(sent)
    BY DEF Typed, CommandServed
  <2> QED BY <1>1, <1>2, <2>1 DEF IsCommand
<1>4. server' \in Servers
  <2>1. After(sent) \in Servers
    <3> DEFINE to == IF sent.to THEN "approved" ELSE "rejected"
    <3>1. to \in {"approved", "rejected"}
      OBVIOUS
    <3>2. After(sent) \in {[server EXCEPT !.moves[sent.of] = "gone"], [server EXCEPT !.cases[sent.of] = to],
                           [server EXCEPT !.messages[sent.of] = "gone"], server}
      BY DEF After
    <3> HIDE DEF to
    <3>3. server \in Servers
      BY DEF Typed
    <3>4. [server EXCEPT !.moves[sent.of] = "gone"] \in Servers
      BY <3>3 DEF Servers, Moves
    <3>5. [server EXCEPT !.cases[sent.of] = to] \in Servers
      BY <3>1, <3>3 DEF Servers, Stages
    <3>6. [server EXCEPT !.messages[sent.of] = "gone"] \in Servers
      BY <3>3 DEF Servers, Ends
    <3> QED BY <3>2, <3>3, <3>4, <3>5, <3>6
  <2>2. server' = After(sent) \/ server' = server
    OBVIOUS
  <2> QED BY <2>1, <2>2 DEF Typed
<1>5. UNCHANGED <<page, view, memory, lcd, asked>>
  BY DEF CommandServed
<1> QED BY <1>3, <1>4, <1>5 DEF Typed, OwnConfig

\* An answer leaves no picker on the display.
LEMMA AnsweredCommand ==
    ASSUME Typed, CommandAnswered
    PROVE  /\ view' \in Views /\ view'.screen \notin Pickers
           /\ page' \in Pages /\ OwnConfig(page)' /\ page'.snapshot = page.snapshot
           /\ sent' = None /\ Draw /\ UNCHANGED <<server, memory, asked, news>>
<1>1. sent' = None /\ Draw /\ UNCHANGED <<server, memory, asked, news>>
  BY DEF CommandAnswered
<1>2. IsCommand(sent) /\ sent.answer \in {"lost", "done", "rejected"}
  BY DEF CommandAnswered, Typed, IsCommand
<1>3. page.behind \in Screens /\ page.behind \notin Pickers /\ page \in Pages /\ view \in Views /\ OwnConfig(page)
  BY DEF Typed, Pages
<1>4. page' \in {[page EXCEPT !.behind = "Overview"], [page EXCEPT !.flash = TRUE]}
  BY <1>2 DEF CommandAnswered
<1>5. page' \in Pages /\ OwnConfig(page)' /\ page'.snapshot = page.snapshot
  <2>1. "Overview" \in Screens \ Pickers
    BY DEF Screens, Pickers
  <2>2. CASE page' = [page EXCEPT !.behind = "Overview"]
    BY <1>3, <2>1, <2>2 DEF Pages, OwnConfig
  <2>3. CASE page' = [page EXCEPT !.flash = TRUE]
    BY <1>3, <2>3 DEF Pages, OwnConfig
  <2> QED BY <1>4, <2>2, <2>3
<1>6. view' \in Views /\ view'.screen \notin Pickers
  <2>1. CASE view' = Show(view, page.behind)
    BY <1>3, <2>1, ShowTyped
  <2>2. CASE view' = ApplyLookup(view, page.snapshot, sent.matches)
    <3>1. page.snapshot \in Snapshots /\ sent.matches \in Trains
      BY <1>2, <1>3 DEF Pages, IsCommand
    <3> QED BY <1>3, <2>2, <3>1, LookupTyped DEF Pickers
  <2>3. CASE view' = Show(view, "CommandAccepted")
    BY <1>3, <2>3, ShowTyped DEF Screens, Pickers
  <2>4. CASE view' = Show(view, "CommandRejected")
    BY <1>3, <2>4, ShowTyped DEF Screens, Pickers
  <2>5. \/ view' = Show(view, page.behind) \/ view' = ApplyLookup(view, page.snapshot, sent.matches)
        \/ view' = Show(view, "CommandAccepted") \/ view' = Show(view, "CommandRejected")
    BY <1>2 DEF CommandAnswered
  <2> QED BY <2>1, <2>2, <2>3, <2>4, <2>5
<1> QED BY <1>1, <1>5, <1>6

LEMMA CommandAnsweredTyped ==
    ASSUME Typed, CommandAnswered PROVE Typed'
<1>1. (IsDrawing(lcd))'
  BY AnsweredCommand, DrawTyped
<1> QED BY <1>1, AnsweredCommand DEF Typed

LEMMA FlashEndsTyped ==
    ASSUME Typed, FlashEnds PROVE Typed' /\ view'.screen \notin Pickers /\ lcd'.flashed
<1>1. page' \in Pages /\ OwnConfig(page)'
  <2>1. "Overview" \in Screens \ Pickers
    BY DEF Screens, Pickers
  <2> QED BY <2>1 DEF FlashEnds, Typed, Pages, OwnConfig
<1>2. view' \in Views /\ view'.screen \notin Pickers
  BY ShowTyped DEF FlashEnds, Typed, Pages
<1>3. (IsDrawing(lcd))' /\ lcd'.flashed
  BY DEF FlashEnds, Typed, IsDrawing
<1>4. UNCHANGED <<server, memory, asked, sent>>
  BY DEF FlashEnds
<1> QED BY <1>1, <1>2, <1>3, <1>4 DEF Typed, IsCommand

LEMMA LanguageTyped ==
    ASSUME Typed, OpenLanguage \/ CloseLanguage \/ LanguageOpened PROVE Typed'
<1>1. page' \in Pages /\ OwnConfig(page)'
  <2>1. page \in Pages /\ OwnConfig(page) /\ server.language \in Languages
    BY DEF Typed, Servers
  <2>2. CASE OpenLanguage
    BY <2>1, <2>2 DEF OpenLanguage, Pages, OwnConfig
  <2>3. CASE CloseLanguage
    BY <2>1, <2>3 DEF CloseLanguage, Pages, OwnConfig
  <2>4. CASE LanguageOpened
    BY <2>1, <2>4 DEF LanguageOpened, Pages, OwnConfig
  <2> QED BY <2>2, <2>3, <2>4
<1>2. UNCHANGED <<server, view, memory, lcd, asked, sent>>
  BY DEF OpenLanguage, CloseLanguage, LanguageOpened
<1> QED BY <1>1, <1>2 DEF Typed, IsCommand

LEMMA SaveLanguageTyped ==
    ASSUME Typed, NEW language \in Languages, SaveLanguage(language) PROVE Typed'
<1>1. page' \in Pages /\ OwnConfig(page)'
  BY DEF SaveLanguage, Typed, Pages, OwnConfig
<1>2. server' \in Servers
  BY DEF SaveLanguage, Typed, Servers
<1>3. asked' \in [Refreshes -> {None} \cup Requests]
  BY NewUITyped DEF SaveLanguage
<1>4. (IsDrawing(lcd))'
  BY DrawTyped DEF SaveLanguage
<1>5. UNCHANGED <<view, memory, sent>>
  BY DEF SaveLanguage
<1> QED BY <1>1, <1>2, <1>3, <1>4, <1>5 DEF Typed, IsCommand

LEMMA OneStepLess ==
    ASSUME NEW w \in Servers, w.steps - 1 \in Nat PROVE [w EXCEPT !.steps = @ - 1] \in Servers
BY DEF Servers

LEMMA ServerTyped ==
    ASSUME Typed, ServerSteps \/ Administrates PROVE Typed'
<1>1. server' \in Servers
  <2>0. server \in Servers /\ MaxPublication \in Nat /\ server.steps - 1 \in Nat
    <3>1. server.steps > 0
      BY DEF ServerSteps, Administrates
    <3>2. server.steps \in Nat /\ server \in Servers
      BY DEF Typed, Servers
    <3> QED BY <3>1, <3>2, PanelAssumption
  <2>1. ASSUME NEW m, NEW to \in {"goes", "gone"}
        PROVE  [server EXCEPT !.moves[m] = to, !.steps = @ - 1] \in Servers
    <3>1. [server EXCEPT !.moves[m] = to] \in Servers /\ [server EXCEPT !.moves[m] = to].steps = server.steps
      BY <2>0, <2>1 DEF Servers, Moves
    <3> QED BY <2>0, <3>1, OneStepLess
  <2>2. ASSUME NEW c, NEW to \in {"waiting", "approved", "gone"}
        PROVE  [server EXCEPT !.cases[c] = to, !.steps = @ - 1] \in Servers
    <3>1. [server EXCEPT !.cases[c] = to] \in Servers /\ [server EXCEPT !.cases[c] = to].steps = server.steps
      BY <2>0, <2>2 DEF Servers, Stages
    <3> QED BY <2>0, <3>1, OneStepLess
  <2>3. ASSUME NEW m, NEW to \in {"sent", "gone"}
        PROVE  [server EXCEPT !.messages[m] = to, !.steps = @ - 1] \in Servers
    <3>1. [server EXCEPT !.messages[m] = to] \in Servers /\ [server EXCEPT !.messages[m] = to].steps = server.steps
      BY <2>0, <2>3 DEF Servers, Ends
    <3> QED BY <2>0, <3>1, OneStepLess
  <2>4. CASE ServerSteps
    <3>1. CASE \E m \in Ids(Order), to \in {"goes", "gone"} :
                 server' = [server EXCEPT !.moves[m] = to, !.steps = @ - 1]
      <4> PICK m \in Ids(Order), to \in {"goes", "gone"} : server' = [server EXCEPT !.moves[m] = to, !.steps = @ - 1]
        BY <3>1
      <4>1. [server EXCEPT !.moves[m] = to, !.steps = @ - 1] \in Servers
        BY <2>1
      <4> QED BY <4>1
    <3>2. CASE \E c \in Ids(Cases), to \in {"waiting", "approved", "gone"} :
                 server' = [server EXCEPT !.cases[c] = to, !.steps = @ - 1]
      <4> PICK c \in Ids(Cases), to \in {"waiting", "approved", "gone"} : server' = [server EXCEPT !.cases[c] = to, !.steps = @ - 1]
        BY <3>2
      <4>1. [server EXCEPT !.cases[c] = to, !.steps = @ - 1] \in Servers
        BY <2>2
      <4> QED BY <4>1
    <3>3. CASE \E m \in Ids(Messages), to \in {"sent", "gone"} :
                 server' = [server EXCEPT !.messages[m] = to, !.steps = @ - 1]
      <4> PICK m \in Ids(Messages), to \in {"sent", "gone"} : server' = [server EXCEPT !.messages[m] = to, !.steps = @ - 1]
        BY <3>3
      <4>1. [server EXCEPT !.messages[m] = to, !.steps = @ - 1] \in Servers
        BY <2>3
      <4> QED BY <4>1
    <3>4. \/ \E m \in Ids(Order), to \in {"goes", "gone"} :
               server' = [server EXCEPT !.moves[m] = to, !.steps = @ - 1]
          \/ \E c \in Ids(Cases), to \in {"waiting", "approved", "gone"} :
               server' = [server EXCEPT !.cases[c] = to, !.steps = @ - 1]
          \/ \E m \in Ids(Messages), to \in {"sent", "gone"} :
               server' = [server EXCEPT !.messages[m] = to, !.steps = @ - 1]
      BY <2>4, Zenon DEF ServerSteps
    <3> QED BY <3>1, <3>2, <3>3, <3>4
  <2>5. CASE Administrates
    <3>1. CASE server.publication < MaxPublication
               /\ server' = [server EXCEPT !.publication = @ + 1, !.steps = @ - 1]
      <4>1. server.publication + 1 \in 1 .. MaxPublication
        BY <2>0, <3>1 DEF Servers
      <4> QED BY <2>0, <3>1, <4>1 DEF Servers
    <3>2. CASE server' = [server EXCEPT !.assigned = ~@, !.steps = @ - 1]
      BY <2>0, <3>2 DEF Servers
    <3>3. CASE server' = [server EXCEPT !.known = FALSE, !.assigned = FALSE, !.steps = @ - 1]
      BY <2>0, <3>3 DEF Servers
    <3>4. CASE server' = [server EXCEPT !.up = ~@, !.steps = @ - 1]
      BY <2>0, <3>4 DEF Servers
    <3> QED BY <2>5, <3>1, <3>2, <3>3, <3>4 DEF Administrates
  <2> QED BY <2>4, <2>5
<1>2. UNCHANGED <<page, view, memory, lcd, asked, sent>>
  BY DEF ServerSteps, Administrates
<1> QED BY <1>1, <1>2 DEF Typed, IsCommand, OwnConfig

LEMMA StepTyped == Typed /\ [Next]_vars => Typed'
<1> SUFFICES ASSUME Typed, [Next]_vars PROVE Typed'
  OBVIOUS
<1>1. CASE Page
  BY <1>1, ConnectedTyped, LanguageTyped, UnlockTyped, CommandAnsweredTyped, FlashEndsTyped, RefreshTyped,
     AfterAssignmentTyped, AfterLanguageTyped, AfterConfigTyped, AfterSnapshotTyped DEF Page
<1>2. CASE Answers
  BY <1>2, CommandServedTyped, ServedTyped DEF Answers
<1>3. CASE Operator
  BY <1>3, StartTyped, PressKeyTyped, LanguageTyped, SaveLanguageTyped DEF Operator, PressAnyKey
<1>4. CASE ServerSteps \/ Administrates
  BY <1>4, ServerTyped
<1>5. CASE UNCHANGED vars
  BY <1>5 DEF vars, Typed, IsCommand, OwnConfig
<1> QED BY <1>1, <1>2, <1>3, <1>4, <1>5 DEF Next

LEMMA AlwaysTyped == Spec => []Typed
BY InitTyped, StepTyped, PTL DEF Spec

\* The panel keeps to the rows, tracks and lines there are, and holds the
\* configuration of the publication it is held for, however many refreshes,
\* answers and keys fall together (nav.reconcile, refreshTMBoxV2).
THEOREM TypeCorrect == Spec => []TypeOK
BY AlwaysTyped, TypedGives, PTL

-----------------------------------------------------------------------------
(* What is sent was shown *)

\* The display shows what would be drawn now, but for what changes without a
\* drawing: the station that is loading, the end of a flash, and a
\* configuration that comes under an open picker.
Shown == \/ lcd.flashed
         \/ view.screen = "LoadingStation"
         \/ lcd.remapped /\ view.screen \in Pickers
         \/ lcd.shows = OnDisplay(view, page.config, page.snapshot)

AsShown == Reads(lcd.shows, sent') \/ lcd.flashed \/ (lcd.remapped /\ view.screen \in Pickers)

LEMMA DrawShows == ASSUME Draw PROVE Shown'
BY DrawTyped DEF Shown

LEMMA ContinueShown ==
    ASSUME Typed, Shown, NEW r \in Refreshes,
           NEW p \in Pages, p.config = page.config, p.snapshot = page.snapshot, NEW assignment,
           Continue(r, p, assignment)
    PROVE  Shown'
<1>1. CASE p.configFor = assignment.publication
  BY <1>1 DEF Continue, Shown
<1>2. CASE p.configFor # assignment.publication
  <2>1. view' = Show(view, "LoadingStation")
    BY <1>2 DEF Continue
  <2>2. view'.screen = "LoadingStation"
    BY <2>1, ShowTyped DEF Typed, Screens
  <2> QED BY <2>2 DEF Shown
<1> QED BY <1>1, <1>2

LEMMA AfterAssignmentShown ==
    ASSUME Typed, Shown, NEW r \in Refreshes, AfterAssignment(r) PROVE Shown'
<1> DEFINE assignment == AssignmentOf(Answer(r))
           p == [page EXCEPT !.assignment = assignment, !.browser = @ /\ Answer(r).ok # "unknown"]
<1>1. assignment \in Assignments
  BY AssignmentTyped DEF AfterAssignment
<1>2. p \in Pages /\ p.config = page.config /\ p.snapshot = page.snapshot
  BY <1>1, OtherAssignment
<1> HIDE DEF assignment, p
<1>3. CASE assignment.language \notin {None, page.language}
  <2>1. page' = p /\ UNCHANGED <<view, lcd>>
    BY <1>3 DEF AfterAssignment, assignment, p
  <2> QED BY <1>2, <2>1 DEF Shown
<1>4. CASE Unassigned(r, p)
  BY <1>4, DrawShows DEF Unassigned
<1>5. CASE Continue(r, p, assignment)
  BY <1>2, <1>5, ContinueShown
<1> QED BY <1>3, <1>4, <1>5 DEF AfterAssignment, assignment, p

LEMMA AfterLanguageShown ==
    ASSUME Typed, Shown, NEW r \in Refreshes, AfterLanguage(r) PROVE Shown'
<1> DEFINE assignment == IF Answer(r).ok = "lost" THEN NoAssignment ELSE page.assignment
           language == IF Answer(r).ok = "yes" /\ asked[r].fresh THEN Answer(r).language ELSE page.language
           p == [page EXCEPT !.assignment = assignment, !.language = language]
<1>1. IF p.assignment.status # "assigned" THEN Unassigned(r, p) ELSE Continue(r, p, p.assignment)
  BY DEF AfterLanguage
<1>2. assignment \in Assignments /\ language \in Languages \cup {None}
  BY LanguageAnswered
<1> HIDE DEF assignment, language
<1>3. p \in Pages /\ p.config = page.config /\ p.snapshot = page.snapshot
  BY <1>2 DEF Typed, Pages
<1> HIDE DEF p
<1>4. CASE Unassigned(r, p)
  BY <1>4, DrawShows DEF Unassigned
<1> QED BY <1>1, <1>3, <1>4, ContinueShown

\* A configuration changes what the pickers show and nothing else.
LEMMA AfterConfigShown ==
    ASSUME Typed, Shown, NEW r \in Refreshes, AfterConfig(r) PROVE Shown'
<1>1. CASE SameScope(Answer(r), asked[r].for)
  <2>1. /\ page' = [page EXCEPT !.config = ConfigOf(Answer(r).publication), !.configFor = asked[r].for.publication]
        /\ lcd' = [lcd EXCEPT !.remapped = @ \/ view.screen \in Pickers] /\ UNCHANGED view
    BY <1>1 DEF AfterConfig
  <2>2. page'.snapshot = page.snapshot
    BY <2>1 DEF Typed, Pages
  <2>3. /\ lcd'.shows = lcd.shows /\ lcd'.flashed = lcd.flashed
        /\ lcd'.remapped <=> lcd.remapped \/ view.screen \in Pickers
    BY <2>1 DEF Typed, IsDrawing
  <2>4. view.screen \notin Pickers
          => OnDisplay(view, page'.config, page.snapshot) = OnDisplay(view, page.config, page.snapshot)
    BY DEF OnDisplay, Pickers
  <2> QED BY <2>1, <2>2, <2>3, <2>4 DEF Shown
<1>2. CASE ~SameScope(Answer(r), asked[r].for)
  BY <1>2, DrawShows DEF AfterConfig
<1> QED BY <1>1, <1>2

LEMMA AfterSnapshotShown ==
    ASSUME Typed, Shown, NEW r \in Refreshes, AfterSnapshot(r) PROVE Shown'
<1>1. Answer(r) \in Refusals \cup SnapshotAnswers
  BY AnswerTypes DEF AfterSnapshot, Waiting
<1>2. Answer(r).ok \in {"lost", "no", "unknown", "yes"}
  BY <1>1 DEF Refusals, SnapshotAnswers
<1>3. Draw \/ UNCHANGED <<page, view, lcd>>
  BY <1>2 DEF AfterSnapshot, Remapped, Taken
<1> QED BY <1>3, DrawShows DEF Shown

LEMMA PressKeyShown ==
    ASSUME Typed, Shown, NEW key \in Keys, NEW shorter \in Numbers \cup {None}, PressKey(key, shorter)
    PROVE  Shown' /\ (sent' # sent => AsShown)
<1>1. Shown'
  BY PressedKey, DrawShows
<1>2. CASE UNCHANGED sent
  BY <1>1, <1>2
<1>3. CASE view.screen # "LoadingStation" /\ Reads(OnDisplay(view, page.config, page.snapshot), sent')
  <2>1. AsShown
    BY <1>3 DEF Shown, AsShown
  <2> QED BY <1>1, <2>1
<1>4. \/ UNCHANGED sent
      \/ view.screen # "LoadingStation" /\ Reads(OnDisplay(view, page.config, page.snapshot), sent')
  BY PressedKey
<1> QED BY <1>2, <1>3, <1>4

LEMMA UnlockShown ==
    ASSUME Typed, Shown, Unlock PROVE Shown'
<1>1. view' = [view EXCEPT !.locked = FALSE] /\ UNCHANGED <<page, lcd>>
  BY DEF Unlock
<1>2. /\ view'.screen = view.screen /\ view'.move = view.move /\ view'.track = view.track
      /\ view'.line = view.line /\ view'.number = view.number /\ view'.found = view.found
      /\ view'.match = view.match /\ view'.case = view.case
  BY <1>1 DEF Typed, Views
<1>3. OnDisplay(view', page.config, page.snapshot) = OnDisplay(view, page.config, page.snapshot)
  BY <1>2 DEF OnDisplay
<1> QED BY <1>1, <1>2, <1>3 DEF Shown

\* The rest of the steps leaves what is shown alone, or draws it again.
LEMMA OtherShown ==
    ASSUME Typed, Shown,
           \/ Connected \/ StartClicked \/ OpenLanguage \/ CloseLanguage \/ LanguageOpened \/ CommandAnswered
           \/ CommandServed \/ FlashEnds \/ ServerSteps \/ Administrates
           \/ \E l \in Languages : SaveLanguage(l)
           \/ \E r \in Refreshes : Served(r) \/ Refresh(r)
    PROVE  Shown'
<1>1. CASE Draw
  BY <1>1, DrawShows
<1>2. CASE FlashEnds
  BY <1>2, FlashEndsTyped DEF Shown
<1>3. CASE UNCHANGED <<view, lcd>> /\ page'.config = page.config /\ page'.snapshot = page.snapshot
  BY <1>3 DEF Shown
<1>4. ASSUME NEW r \in Refreshes, Served(r) \/ Refresh(r)
      PROVE  Draw \/ (UNCHANGED <<view, lcd>> /\ page'.config = page.config /\ page'.snapshot = page.snapshot)
  BY <1>4 DEF Served, Refresh, Unassigned
<1>5. ASSUME \/ Connected \/ StartClicked \/ OpenLanguage \/ CloseLanguage \/ LanguageOpened
             \/ CommandServed \/ ServerSteps \/ Administrates
      PROVE  UNCHANGED <<view, lcd>> /\ page'.config = page.config /\ page'.snapshot = page.snapshot
  BY <1>5 DEF Connected, StartClicked, OpenLanguage, CloseLanguage, LanguageOpened, CommandServed, ServerSteps,
              Administrates, Typed, Pages
<1>6. CommandAnswered \/ (\E l \in Languages : SaveLanguage(l)) => Draw
  BY DEF CommandAnswered, SaveLanguage
<1> QED BY <1>1, <1>2, <1>3, <1>4, <1>5, <1>6

LEMMA StepShown ==
    ASSUME Typed, Shown, [Next]_vars PROVE Shown' /\ (sent = None /\ sent' # None => AsShown)
<1>1. ASSUME NEW key \in Keys, NEW shorter \in Numbers \cup {None}, PressKey(key, shorter)
      PROVE  Shown' /\ (sent = None /\ sent' # None => AsShown)
  BY <1>1, PressKeyShown
<1>2. CASE ~PressAnyKey
  <2>1. Shown'
    <3>1. CASE Page
      BY <3>1, OtherShown, UnlockShown, AfterAssignmentShown, AfterLanguageShown, AfterConfigShown,
         AfterSnapshotShown DEF Page
    <3>2. CASE Answers
      BY <3>2, OtherShown DEF Answers
    <3>3. CASE Operator
      BY <1>2, <3>3, OtherShown DEF Operator
    <3>4. CASE ServerSteps \/ Administrates
      BY <3>4, OtherShown
    <3>5. CASE UNCHANGED vars
      BY <3>5 DEF vars, Shown
    <3> QED BY <3>1, <3>2, <3>3, <3>4, <3>5 DEF Next
  <2>2. sent = None => sent' = None
    <3>1. CASE Page
      BY <3>1 DEF Page, Connected, LanguageOpened, Unlock, CommandAnswered, FlashEnds, Refresh, AfterAssignment,
                  AfterLanguage, AfterConfig, AfterSnapshot, Unassigned, Continue
    <3>2. CASE Answers \/ ServerSteps \/ Administrates
      BY <3>2 DEF Answers, CommandServed, Served, ServerSteps, Administrates
    <3>3. CASE Operator
      BY <1>2, <3>3 DEF Operator, StartClicked, OpenLanguage, CloseLanguage, SaveLanguage
    <3>4. CASE UNCHANGED vars
      BY <3>4 DEF vars
    <3> QED BY <3>1, <3>2, <3>3, <3>4 DEF Next
  <2> QED BY <2>1, <2>2
<1> QED BY <1>1, <1>2 DEF PressAnyKey

LEMMA InitShown == Init => Shown
BY DEF Init, Drawn, Shown

\* Whatever keys, answers, overlapping refreshes, publications and flashes fall
\* between, a command that is sent is one the display showed, unless the flash
\* of the one before has ended undrawn, or a configuration has come under the
\* open picker it was picked from (pressV2Key, refreshTMBoxV2, drawV2).
THEOREM WhatIsSentWasShown == Spec => ShownIsSent
<1>1. Init => Shown
  BY InitShown
<1>2. Typed /\ Shown /\ [Next]_vars => Shown'
  BY StepShown
<1>3. Typed /\ Shown /\ [Next]_vars
        => [sent = None /\ sent' # None =>
              \/ Reads(lcd.shows, sent')
              \/ lcd.flashed
              \/ lcd.remapped /\ view.screen \in Pickers]_vars
  BY StepShown DEF AsShown
<1> QED BY <1>1, <1>2, <1>3, AlwaysTyped, PTL DEF Spec, ShownIsSent

-----------------------------------------------------------------------------
(* Nothing is signalled twice *)

\* A snapshot names the cases and messages that were open at some moment.
Reflects(cases, messages, past) ==
    /\ cases = {<<c, past.cases[c]>> : c \in {c \in Ids(Cases) : past.cases[c] \in {"waiting", "approved", "rejected"}}}
    /\ messages = {m \in Ids(Messages) : past.messages[m] = "sent"}

\* The page has heard a snapshot and not yet taken it.
Heard(r) ==
    /\ asked[r] # None /\ asked[r].at = "snapshot" /\ asked[r].answer # None /\ asked[r].answer.ok = "yes"

OfItsMoment(answer) == Reflects(CasesOf(answer.snapshot), MessagesOf(answer.snapshot), answer.moment)

ToldBy(told, past) ==
    /\ \A c \in Ids(Cases) :
          /\ <<"IncomingRequest", c>> \in told => past.cases[c] # "none"
          /\ <<"Answer", c>> \in told => past.cases[c] \in {"approved", "rejected", "gone"}
    /\ \A m \in Ids(Messages) : <<"IncomingTrain", m>> \in told => past.messages[m] # "none"

\* What is remembered was so at the moment of the last snapshot, by which all
\* that is told had come, and every snapshot that is heard is of its moment.
Announced ==
    /\ news = [told |-> news.told, last |-> news.last, turned |-> news.turned, twice |-> news.twice]
    /\ news.last \in Histories /\ news.turned \in BOOLEAN
    /\ memory.seeded => Reflects(memory.cases, memory.messages, news.last)
    /\ ToldBy(news.told, news.last)
    /\ news.twice => news.turned
    /\ \A r \in Refreshes : Heard(r) => OfItsMoment(Answer(r))

LEMMA NowIsHistory == ASSUME server \in Servers PROVE Now \in Histories
BY DEF Now, Histories, Servers


\* Steps that take no snapshot and hear none.
LEMMA AsideAnnounced ==
    ASSUME Announced, UNCHANGED news, UNCHANGED memory \/ memory' = Deaf,
           \A r \in Refreshes : Heard(r)' => Heard(r) /\ asked'[r].answer = asked[r].answer
    PROVE  Announced'
<1>1. memory'.seeded => UNCHANGED memory
  BY DEF Deaf
<1>2. \A r \in Refreshes : Heard(r)' => OfItsMoment(Answer(r))'
  <2> SUFFICES ASSUME NEW r \in Refreshes, Heard(r)' PROVE OfItsMoment(Answer(r))'
    OBVIOUS
  <2>1. Heard(r) /\ Answer(r)' = Answer(r)
    BY DEF Answer
  <2> QED BY <2>1 DEF Announced, OfItsMoment
<1> QED BY <1>1, <1>2 DEF Announced

\* What is asked for next is not heard yet, and what is done is not heard any more.
LEMMA HeardIs ==
    ASSUME Typed, NEW r \in Refreshes, (\E at, for : Ask(r, at, for)) \/ Done(r) \/ asked' = NewUI(asked)
    PROVE  \A q \in Refreshes : Heard(q)' => Heard(q) /\ asked'[q].answer = asked[q].answer
<1> SUFFICES ASSUME NEW q \in Refreshes, Heard(q)' PROVE Heard(q) /\ asked'[q].answer = asked[q].answer
  OBVIOUS
<1>1. ASSUME NEW at, NEW for, Ask(r, at, for) PROVE asked'[q] = asked[q]
  <2> DEFINE request == [at |-> at, for |-> for, fresh |-> TRUE, answer |-> IF page'.browser THEN None ELSE [ok |-> "lost"]]
  <2>1. asked' = [asked EXCEPT ![r] = request]
    BY <1>1 DEF Ask
  <2>2. request.answer = None \/ request.answer.ok = "lost"
    OBVIOUS
  <2> HIDE DEF request
  <2> QED BY <2>1, <2>2 DEF Typed, Heard
<1>2. CASE Done(r)
  BY <1>2 DEF Done, Typed, Heard
<1>3. CASE asked' = NewUI(asked)
  <2>1. asked[q] # None /\ asked'[q] = [asked[q] EXCEPT !.fresh = FALSE]
    BY <1>3 DEF NewUI, Heard
  <2>2. asked[q] \in Requests
    BY <2>1 DEF Typed
  <2>3. asked'[q].at = asked[q].at /\ asked'[q].answer = asked[q].answer
    BY <2>1, <2>2 DEF Requests
  <2> QED BY <2>1, <2>3 DEF Heard
<1> QED BY <1>1, <1>2, <1>3 DEF Heard

\* A snapshot says what is so when it is answered.
LEMMA PictureReflects ==
    ASSUME server \in Servers, NEW picture \in Pictures
    PROVE  Reflects(CasesOf(picture), MessagesOf(picture), Now)
<1>1. CasesOf(picture) = {<<c, server.cases[c]>> : c \in Open}
  <2>1. \A i \in DOMAIN picture.cases :
          /\ picture.cases[i].id \in Open /\ picture.cases[i].status = server.cases[picture.cases[i].id]
    BY PictureTypes
  <2>2. \A c \in Open : \E i \in DOMAIN picture.cases : picture.cases[i].id = c
    BY PictureTypes
  <2> QED BY <2>1, <2>2 DEF CasesOf
<1>2. MessagesOf(picture) = There
  <2>1. \A i \in DOMAIN picture.messages : picture.messages[i].id \in There
    BY PictureTypes
  <2>2. \A m \in There : \E i \in DOMAIN picture.messages : picture.messages[i].id = m
    BY PictureTypes
  <2> QED BY <2>1, <2>2 DEF MessagesOf
<1>3. Now.cases = server.cases /\ Now.messages = server.messages
  BY DEF Now
<1> QED BY <1>1, <1>2, <1>3 DEF Reflects, Open, There

LEMMA ServedAnnounced ==
    ASSUME Typed, Announced, NEW r \in Refreshes, Served(r) PROVE Announced'
<1>1. UNCHANGED <<memory, news>>
  BY DEF Served
<1>2. asked[r] # None /\ asked[r] \in Requests
  BY DEF Served, Typed
<1> PICK picture \in Pictures :
      asked' = [asked EXCEPT ![r].answer =
         IF ~server.up THEN [ok |-> "lost"]
         ELSE IF ~server.known THEN [ok |-> "unknown"]
         ELSE IF asked[r].at = "assignment"
              THEN [ok |-> "yes", status |-> IF server.assigned THEN "assigned" ELSE "awaiting",
                    publication |-> server.publication, language |-> server.language]
         ELSE IF asked[r].at = "language" THEN [ok |-> "yes", language |-> server.language]
         ELSE IF ~server.assigned THEN [ok |-> "no"]
         ELSE IF asked[r].at = "config" THEN [ok |-> "yes", publication |-> server.publication]
         ELSE [ok |-> "yes", publication |-> server.publication, snapshot |-> picture, moment |-> Now]]
  BY DEF Served
<1> DEFINE answer ==
         IF ~server.up THEN [ok |-> "lost"]
         ELSE IF ~server.known THEN [ok |-> "unknown"]
         ELSE IF asked[r].at = "assignment"
              THEN [ok |-> "yes", status |-> IF server.assigned THEN "assigned" ELSE "awaiting",
                    publication |-> server.publication, language |-> server.language]
         ELSE IF asked[r].at = "language" THEN [ok |-> "yes", language |-> server.language]
         ELSE IF ~server.assigned THEN [ok |-> "no"]
         ELSE IF asked[r].at = "config" THEN [ok |-> "yes", publication |-> server.publication]
         ELSE [ok |-> "yes", publication |-> server.publication, snapshot |-> picture, moment |-> Now]
<1>3. /\ asked' = [asked EXCEPT ![r].answer = answer]
      /\ asked[r].at = "snapshot" /\ answer.ok = "yes" => answer.snapshot = picture /\ answer.moment = Now
  OBVIOUS
<1> HIDE DEF answer
<1>4. asked'[r].at = asked[r].at /\ asked'[r].answer = answer
  BY <1>2, <1>3 DEF Typed, Requests
<1>5. ASSUME NEW q \in Refreshes, Heard(q)' PROVE OfItsMoment(Answer(q))'
  <2>1. CASE q = r
    <3>1. Answer(q)' = answer /\ answer.snapshot = picture /\ answer.moment = Now
      BY <1>3, <1>4, <1>5, <2>1 DEF Heard, Answer
    <3>2. Reflects(CasesOf(picture), MessagesOf(picture), Now)
      BY PictureReflects DEF Typed
    <3> QED BY <3>1, <3>2 DEF OfItsMoment
  <2>2. CASE q # r
    <3>1. asked'[q] = asked[q]
      BY <1>3, <2>2 DEF Typed
    <3>2. Heard(q) /\ Answer(q)' = Answer(q)
      BY <1>5, <3>1 DEF Heard, Answer
    <3> QED BY <3>2 DEF Announced, OfItsMoment
  <2> QED BY <2>1, <2>2
<1> QED BY <1>1, <1>5 DEF Announced

\* What is news in a snapshot of one moment to what is remembered.
IsNews(n, m, seen) ==
    \/ \E c \in Ids(Cases) :
         n = <<"IncomingRequest", c>> /\ seen.cases[c] = "waiting" /\ \A st : <<c, st>> \notin m.cases
    \/ \E c \in Ids(Cases) :
         /\ n = <<"Answer", c>> /\ seen.cases[c] \in {"approved", "rejected"}
         /\ <<c, seen.cases[c]>> \notin m.cases /\ \E st : <<c, st>> \in m.cases
    \/ \E x \in Ids(Messages) :
         n = <<"IncomingTrain", x>> /\ seen.messages[x] = "sent" /\ x \notin m.messages

LEMMA NewsIs ==
    ASSUME NEW m \in Memories, NEW s \in Snapshots, NEW seen \in Histories,
           Reflects(CasesOf(s), MessagesOf(s), seen), NEW n \in Observe(m, s).news
    PROVE  IsNews(n, m, seen)
<1> DEFINE known == {case[1] : case \in m.cases}
<1>1. \A i \in DOMAIN s.cases : s.cases[i].id \in Ids(Cases) /\ s.cases[i].status = seen.cases[s.cases[i].id]
  <2>1. \A i \in DOMAIN s.cases : <<s.cases[i].id, s.cases[i].status>> \in CasesOf(s)
    BY DEF CasesOf
  <2> QED BY <2>1 DEF Reflects
<1>2. \A i \in DOMAIN s.messages : s.messages[i].id \in Ids(Messages) /\ seen.messages[s.messages[i].id] = "sent"
  <2>1. \A i \in DOMAIN s.messages : s.messages[i].id \in MessagesOf(s)
    BY DEF MessagesOf
  <2> QED BY <2>1 DEF Reflects
<1>3. \A c : c \in known <=> \E st : <<c, st>> \in m.cases
  <2>1. m.cases \in SUBSET (Ids(Cases) \X {"waiting", "approved", "rejected"})
    BY DEF Memories
  <2>2. ASSUME NEW c \in known PROVE \E st : <<c, st>> \in m.cases
    <3>1. PICK case \in m.cases : c = case[1]
      BY <2>2
    <3>2. PICK d \in Ids(Cases), st \in {"waiting", "approved", "rejected"} : case = <<d, st>>
      BY <2>1, <3>1
    <3> QED BY <3>1, <3>2
  <2>3. ASSUME NEW c, NEW st, <<c, st>> \in m.cases PROVE c \in known
    <3>1. <<c, st>>[1] = c
      OBVIOUS
    <3> QED BY <2>3, <3>1
  <2> QED BY <2>2, <2>3
<1>4. \/ \E i \in DOMAIN s.cases :
           /\ n = <<"IncomingRequest", s.cases[i].id>>
           /\ s.cases[i].id \notin known /\ s.cases[i].status = "waiting"
      \/ \E i \in DOMAIN s.cases :
           /\ n = <<"Answer", s.cases[i].id>> /\ s.cases[i].id \in known
           /\ <<s.cases[i].id, s.cases[i].status>> \notin m.cases
           /\ s.cases[i].status \in {"approved", "rejected"}
      \/ \E i \in DOMAIN s.messages :
           /\ n = <<"IncomingTrain", s.messages[i].id>> /\ s.messages[i].id \notin m.messages
  BY DEF Observe
<1> HIDE DEF known
<1> QED BY <1>1, <1>2, <1>3, <1>4 DEF IsNews

LEMMA NewsHasCome ==
    ASSUME NEW m \in Memories, NEW s \in Snapshots, NEW seen \in Histories,
           Reflects(CasesOf(s), MessagesOf(s), seen)
    PROVE  ToldBy(Observe(m, s).news, seen)
<1> DEFINE fresh == Observe(m, s).news
<1>1. ASSUME NEW c \in Ids(Cases), <<"IncomingRequest", c>> \in fresh PROVE seen.cases[c] # "none"
  BY <1>1, NewsIs DEF IsNews
<1>2. ASSUME NEW c \in Ids(Cases), <<"Answer", c>> \in fresh PROVE seen.cases[c] \in {"approved", "rejected", "gone"}
  BY <1>2, NewsIs DEF IsNews
<1>3. ASSUME NEW x \in Ids(Messages), <<"IncomingTrain", x>> \in fresh PROVE seen.messages[x] # "none"
  BY <1>3, NewsIs DEF IsNews
<1> HIDE DEF fresh
<1>4. ToldBy(fresh, seen)
  BY <1>1, <1>2, <1>3 DEF ToldBy
<1> QED BY <1>4 DEF fresh

\* What is news in a later snapshot has not been told.
LEMMA NewsIsNew ==
    ASSUME NEW m \in Memories, NEW s \in Snapshots, NEW past \in Histories, NEW seen \in Histories,
           NEW told, Reflects(m.cases, m.messages, past), Reflects(CasesOf(s), MessagesOf(s), seen),
           Reached(past, seen), ToldBy(told, past)
    PROVE  Observe(m, s).news \cap told = {}
<1> SUFFICES ASSUME NEW n, n \in Observe(m, s).news PROVE n \notin told
  OBVIOUS
<1>0. n \in Observe(m, s).news
  OBVIOUS
<1>1. \A c \in Ids(Cases) : \A st :
        <<c, st>> \in m.cases <=> st = past.cases[c] /\ past.cases[c] \in {"waiting", "approved", "rejected"}
  BY DEF Reflects
<1>2. CASE \E c \in Ids(Cases) :
             n = <<"IncomingRequest", c>> /\ seen.cases[c] = "waiting" /\ \A st : <<c, st>> \notin m.cases
  <2> PICK c \in Ids(Cases) :
             n = <<"IncomingRequest", c>> /\ seen.cases[c] = "waiting" /\ \A st : <<c, st>> \notin m.cases
    BY <1>2
  <2>1. past.cases[c] \in {"none", "waiting", "approved", "rejected", "gone"}
    BY DEF Histories, Stages
  <2>2. Later(past.cases[c], seen.cases[c])
    BY DEF Reached
  <2>3. past.cases[c] = "none"
    BY <1>1, <2>1, <2>2 DEF Later
  <2> QED BY <2>3 DEF ToldBy
<1>3. CASE \E c \in Ids(Cases) :
             /\ n = <<"Answer", c>> /\ seen.cases[c] \in {"approved", "rejected"}
             /\ <<c, seen.cases[c]>> \notin m.cases /\ \E st : <<c, st>> \in m.cases
  <2> PICK c \in Ids(Cases) :
             /\ n = <<"Answer", c>> /\ seen.cases[c] \in {"approved", "rejected"}
             /\ <<c, seen.cases[c]>> \notin m.cases /\ \E st : <<c, st>> \in m.cases
    BY <1>3
  <2>1. Later(past.cases[c], seen.cases[c])
    BY DEF Reached
  <2>2. past.cases[c] = "waiting"
    BY <1>1, <2>1 DEF Later
  <2> QED BY <2>2 DEF ToldBy
<1>4. CASE \E x \in Ids(Messages) :
             n = <<"IncomingTrain", x>> /\ seen.messages[x] = "sent" /\ x \notin m.messages
  <2> PICK x \in Ids(Messages) :
             n = <<"IncomingTrain", x>> /\ seen.messages[x] = "sent" /\ x \notin m.messages
    BY <1>4
  <2>1. past.messages[x] \in {"none", "sent", "gone"} /\ past.messages[x] # "sent"
    BY DEF Histories, Ends, Reflects
  <2>2. Later(past.messages[x], seen.messages[x])
    BY DEF Reached
  <2>3. past.messages[x] = "none"
    BY <2>1, <2>2 DEF Later
  <2>4. <<"IncomingTrain", x>> \in told => past.messages[x] # "none"
    BY DEF ToldBy
  <2>5. n = <<"IncomingTrain", x>>
    OBVIOUS
  <2> QED BY <2>3, <2>4, <2>5
<1>5. IsNews(n, m, seen)
  BY <1>0, NewsIs
<1> QED BY <1>2, <1>3, <1>4, <1>5 DEF IsNews

LEMMA ComeByTold ==
    ASSUME NEW told, NEW moment PROVE ComeBy(told, moment) \subseteq told /\ ToldBy(ComeBy(told, moment), moment)
<1>1. ASSUME NEW c \in Ids(Cases), <<"IncomingRequest", c>> \in ComeBy(told, moment) PROVE moment.cases[c] # "none"
  BY <1>1 DEF ComeBy
<1>2. ASSUME NEW c \in Ids(Cases), <<"Answer", c>> \in ComeBy(told, moment)
      PROVE  moment.cases[c] \in {"approved", "rejected", "gone"}
  BY <1>2 DEF ComeBy
<1>3. ASSUME NEW x \in Ids(Messages), <<"IncomingTrain", x>> \in ComeBy(told, moment)
      PROVE  moment.messages[x] # "none"
  BY <1>3 DEF ComeBy
<1>4. ComeBy(told, moment) \subseteq told
  BY DEF ComeBy
<1> QED BY <1>1, <1>2, <1>3, <1>4 DEF ToldBy

LEMMA TakenAnnounced ==
    ASSUME Typed, Announced, NEW r \in Refreshes, AfterSnapshot(r), Taken(r), Answer(r).ok = "yes"
    PROVE  Announced'
<1> DEFINE snapshot == Answer(r).snapshot
           moment == Answer(r).moment
           fresh == Observe(memory, snapshot).news
           kept == ComeBy(news.told, moment)
<1>1. Heard(r) /\ snapshot \in Snapshots /\ moment \in Histories
  <2>1. Answer(r) \in Refusals \cup SnapshotAnswers
    BY AnswerTypes DEF AfterSnapshot, Waiting
  <2>2. Answer(r) \in SnapshotAnswers
    BY <2>1 DEF Refusals
  <2> QED BY <2>2 DEF Heard, AfterSnapshot, Waiting, Answer, SnapshotAnswers
<1>2. Reflects(CasesOf(snapshot), MessagesOf(snapshot), moment)
  BY <1>1 DEF Announced, OfItsMoment
<1>3. /\ memory' = [seeded |-> TRUE, cases |-> CasesOf(snapshot), messages |-> MessagesOf(snapshot)]
      /\ news' = [told |-> kept \cup fresh, last |-> moment, turned |-> ~Reached(news.last, moment),
                  twice |-> fresh \cap news.told # {}]
  BY <1>1, ObserveTyped DEF Taken
<1>4. Reached(news.last, moment) => fresh \cap news.told = {}
  <2>1. CASE memory.seeded
    <3>1. /\ Reflects(memory.cases, memory.messages, news.last) /\ ToldBy(news.told, news.last)
          /\ memory \in Memories /\ news.last \in Histories
      BY <2>1 DEF Announced, Typed
    <3> HIDE DEF snapshot, moment
    <3> QED BY <1>1, <1>2, <3>1, NewsIsNew
  <2>2. CASE ~memory.seeded
    BY <2>2 DEF Observe
  <2> QED BY <2>1, <2>2
<1>5. ToldBy(fresh, moment)
  <2> HIDE DEF snapshot, moment
  <2> QED BY <1>1, <1>2, NewsHasCome DEF Typed
<1>6. ToldBy(kept, moment)
  BY ComeByTold
<1>7. \A q \in Refreshes : Heard(q)' => OfItsMoment(Answer(q))'
  <2>1. Done(r)
    BY DEF AfterSnapshot
  <2>2. \A q \in Refreshes : Heard(q)' => Heard(q) /\ asked'[q].answer = asked[q].answer
    BY <2>1, HeardIs
  <2>3. ASSUME NEW q \in Refreshes, Heard(q)' PROVE OfItsMoment(Answer(q))'
    <3>1. Heard(q) /\ Answer(q)' = Answer(q)
      BY <2>2, <2>3 DEF Answer
    <3> QED BY <3>1 DEF Announced, OfItsMoment
  <2> QED BY <2>3
<1> HIDE DEF fresh, snapshot, moment, kept
<1>8. ToldBy(kept \cup fresh, moment)
  BY <1>5, <1>6 DEF ToldBy
<1> QED BY <1>1, <1>2, <1>3, <1>4, <1>7, <1>8 DEF Announced

LEMMA AfterSnapshotAnnounced ==
    ASSUME Typed, Announced, NEW r \in Refreshes, AfterSnapshot(r) PROVE Announced'
<1>1. CASE UNCHANGED <<memory, news>>
  <2>1. \A q \in Refreshes : Heard(q)' => Heard(q) /\ asked'[q].answer = asked[q].answer
    BY HeardIs DEF AfterSnapshot
  <2> QED BY <1>1, <2>1, AsideAnnounced
<1>2. UNCHANGED <<memory, news>> \/ (Taken(r) /\ Answer(r).ok = "yes")
  <2>1. Answer(r) \in Refusals \cup SnapshotAnswers
    BY AnswerTypes DEF AfterSnapshot, Waiting
  <2>2. Answer(r).ok \in {"lost", "no", "unknown", "yes"}
    BY <2>1 DEF Refusals, SnapshotAnswers
  <2> QED BY <2>2 DEF AfterSnapshot, Remapped
<1> QED BY <1>1, <1>2, TakenAnnounced

\* The rest of the steps leaves what is told alone, and hears and takes nothing.
LEMMA OtherAnnounced ==
    ASSUME Typed, Announced, UNCHANGED news, UNCHANGED memory \/ memory' = Deaf,
           \/ UNCHANGED asked \/ asked' = NewUI(asked)
           \/ \E r \in Refreshes : (\E at, for : Ask(r, at, for)) \/ Done(r)
    PROVE  Announced'
<1>1. CASE UNCHANGED asked
  <2>1. \A r \in Refreshes : Heard(r)' => Heard(r) /\ asked'[r].answer = asked[r].answer
    BY <1>1 DEF Heard
  <2> QED BY <2>1, AsideAnnounced
<1>2. CASE asked' = NewUI(asked)
  <2>1. \A r \in Refreshes : Heard(r)' => Heard(r) /\ asked'[r].answer = asked[r].answer
    BY <1>2, HeardIs
  <2> QED BY <2>1, AsideAnnounced
<1>3. ASSUME NEW r \in Refreshes, (\E at, for : Ask(r, at, for)) \/ Done(r) PROVE Announced'
  <2>1. \A q \in Refreshes : Heard(q)' => Heard(q) /\ asked'[q].answer = asked[q].answer
    BY <1>3, HeardIs
  <2> QED BY <2>1, AsideAnnounced
<1> QED BY <1>1, <1>2, <1>3

LEMMA RefreshesAnnounced ==
    ASSUME Typed, Announced, NEW r \in Refreshes,
           Refresh(r) \/ AfterAssignment(r) \/ AfterLanguage(r) \/ AfterConfig(r)
    PROVE  Announced'
<1>1. UNCHANGED news /\ (UNCHANGED memory \/ memory' = Deaf)
  BY DEF Refresh, AfterAssignment, AfterLanguage, AfterConfig, Unassigned, Continue
<1>2. (\E at, for : Ask(r, at, for)) \/ Done(r)
  BY DEF Refresh, AfterAssignment, AfterLanguage, AfterConfig, Unassigned, Continue
<1> QED BY <1>1, <1>2, OtherAnnounced

LEMMA AloneAnnounced ==
    ASSUME Typed, Announced,
           \/ Connected \/ StartClicked \/ OpenLanguage \/ CloseLanguage \/ LanguageOpened \/ Unlock
           \/ PressAnyKey \/ CommandAnswered \/ FlashEnds \/ CommandServed \/ ServerSteps \/ Administrates
           \/ \E l \in Languages : SaveLanguage(l)
    PROVE  Announced'
<1>1. UNCHANGED <<memory, news>>
  BY DEF Connected, StartClicked, OpenLanguage, CloseLanguage, LanguageOpened, Unlock, PressAnyKey, PressKey,
         CommandAnswered, FlashEnds, CommandServed, ServerSteps, Administrates, SaveLanguage
<1>2. UNCHANGED asked \/ asked' = NewUI(asked)
  BY DEF Connected, StartClicked, OpenLanguage, CloseLanguage, LanguageOpened, Unlock, PressAnyKey, PressKey,
         CommandAnswered, FlashEnds, CommandServed, ServerSteps, Administrates, SaveLanguage
<1> QED BY <1>1, <1>2, OtherAnnounced

LEMMA StepAnnounced == ASSUME Typed, Announced, [Next]_vars PROVE Announced'
<1>1. CASE Page
  BY <1>1, AloneAnnounced, RefreshesAnnounced, AfterSnapshotAnnounced DEF Page
<1>2. CASE Answers
  BY <1>2, AloneAnnounced, ServedAnnounced DEF Answers
<1>3. CASE Operator
  BY <1>3, AloneAnnounced DEF Operator
<1>4. CASE ServerSteps \/ Administrates
  BY <1>4, AloneAnnounced
<1>5. CASE UNCHANGED vars
  <2>1. UNCHANGED <<memory, news, asked>>
    BY <1>5 DEF vars
  <2> QED BY <2>1, OtherAnnounced
<1> QED BY <1>1, <1>2, <1>3, <1>4, <1>5 DEF Next

LEMMA InitAnnounced == ASSUME Init PROVE Announced
<1>1. Now \in Histories
  BY InitTyped, NowIsHistory DEF Typed
<1>2. \A r \in Refreshes : ~Heard(r)
  BY DEF Init, Heard
<1> QED BY <1>1, <1>2 DEF Init, Deaf, Announced, ToldBy

\* What is signalled has not been signalled before, over new configurations,
\* lost links, refused commands, empty snapshots and any number of overlapping
\* refreshes, unless the snapshots have turned (AttentionController).
THEOREM NothingIsToldTwice == Spec => []AnnouncedOnce
<1>1. Init => Announced
  BY InitAnnounced
<1>2. Typed /\ Announced /\ [Next]_vars => Announced'
  BY StepAnnounced
<1>3. Announced => AnnouncedOnce
  BY DEF Announced, AnnouncedOnce
<1> QED BY <1>1, <1>2, <1>3, AlwaysTyped, PTL DEF Spec
=============================================================================
