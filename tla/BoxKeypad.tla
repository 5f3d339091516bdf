----------------------------- MODULE BoxKeypad -----------------------------
(***************************************************************************)
(* What a TMBox does with a key, with a fresh snapshot and with news, and  *)
(* what its display then shows: the navigation (tmbox-nav.js), the         *)
(* attention (tmbox-attention.js) and the renderer (tmbox-render.js), as   *)
(* functions of the view, the station's configuration and the snapshot.    *)
(* A position in a list is 0 where the code has -1.  Train numbers are     *)
(* whole values, not digits.                                               *)
(***************************************************************************)
EXTENDS Integers, Sequences, FiniteSets

CONSTANTS None,
          Numbers       \* train numbers that can be typed

Letters == {"A", "B", "C", "*", "#"}
Keys == Letters \cup Numbers

StartView ==
    [screen |-> "Overview", move |-> 0, track |-> 1, line |-> 1,
     number |-> None, found |-> << >>, match |-> 1, case |-> 1, locked |-> FALSE]

NoConfig == [tracks |-> << >>, lines |-> << >>]
NoSnapshot == [moves |-> << >>, cases |-> << >>, messages |-> << >>]

\* Half a second after another screen, or another row, is shown no key counts.
Show(v, screen) == IF v.screen = screen THEN v ELSE [v EXCEPT !.screen = screen, !.locked = TRUE]
Following(i, list) == (i % Len(list)) + 1

Primaries == <<"train.position.set", "train.crew_ready.set", "clearance.request",
               "train.departed", "train.approaching", "train.arrived">>
\* The first of them that the server allows, or None.
Primary(move) ==
    LET allowed == {i \in DOMAIN Primaries : Primaries[i] \in move.allowed}
    IN  IF allowed = {} THEN None ELSE Primaries[CHOOSE i \in allowed : \A j \in allowed : i <= j]

\* Where the row of a movement is, or 0.
Place(moves, id) == LET at == {i \in DOMAIN moves : moves[i].id = id}
                    IN  IF at = {} THEN 0 ELSE CHOOSE i \in at : TRUE
PlaceOfTrack(tracks, track) == IF \E i \in DOMAIN tracks : tracks[i] = track
                               THEN CHOOSE i \in DOMAIN tracks : tracks[i] = track ELSE 1

-----------------------------------------------------------------------------
(* Keys *)

Ignored(v) == [outcome |-> "Ignored", view |-> v, command |-> None]
Redraw(v) == [outcome |-> "Redraw", view |-> v, command |-> None]
Send(v, action, of, to) ==
    [outcome |-> "Send", view |-> v, command |-> [action |-> action, of |-> of, to |-> to]]

Back(v) ==
    IF v.screen \in {"TrackPicker", "LinePicker"} THEN Redraw(Show(v, "Detail"))
    ELSE Redraw(Show([v EXCEPT !.move = 0, !.case = 1, !.number = None, !.found = << >>], "Overview"))

Type(v, n) == Redraw([Show(v, "Lookup") EXCEPT !.number = n])

OverviewKey(key, v, s) ==
    CASE key = "C" /\ s.moves # << >> -> Redraw(Show([v EXCEPT !.move = 1], "Detail"))
      [] key = "#" /\ s.cases # << >> -> Redraw(Show([v EXCEPT !.case = 1], "CaseInbox"))
      [] key = "#" /\ s.cases = << >> /\ s.messages # << >> -> Redraw(Show([v EXCEPT !.case = 1], "LineInbox"))
      [] OTHER -> Ignored(v)

\* A request for a clearance first asks which line the train is taking.
PrimaryKey(v, c, m) ==
    CASE Primary(m) = None -> Ignored(v)
      [] Primary(m) \notin {None, "clearance.request"} -> Send(v, Primary(m), m.id, None)
      [] Primary(m) = "clearance.request" ->
            IF c.lines = << >> THEN Ignored(v) ELSE Redraw(Show([v EXCEPT !.line = 1], "LinePicker"))

DetailKey(key, v, c, s) ==
    CASE v.move \notin DOMAIN s.moves -> Ignored(v)
      [] v.move \in DOMAIN s.moves /\ key = "C" -> Redraw([v EXCEPT !.move = Following(@, s.moves), !.locked = TRUE])
      [] v.move \in DOMAIN s.moves /\ key = "A" -> PrimaryKey(v, c, s.moves[v.move])
      [] v.move \in DOMAIN s.moves /\ key = "B" /\ "train.track.change" \in s.moves[v.move].allowed ->
            Redraw(Show([v EXCEPT !.track = PlaceOfTrack(c.tracks, s.moves[v.move].track)], "TrackPicker"))
      [] OTHER -> Ignored(v)

\* A picker sends for the selected movement, and only what it is still allowed.
Pick(v, s, action, picked) ==
    IF v.move \in DOMAIN s.moves /\ action \in s.moves[v.move].allowed
    THEN Send(v, action, s.moves[v.move].id, picked) ELSE Ignored(v)

TrackKey(key, v, c, s) ==
    CASE c.tracks # << >> /\ key = "C" -> Redraw([v EXCEPT !.track = Following(@, c.tracks), !.locked = TRUE])
      [] c.tracks # << >> /\ key = "A" -> Pick(v, s, "train.track.change", c.tracks[v.track])
      [] OTHER -> Ignored(v)

LineKey(key, v, c, s) ==
    CASE c.lines # << >> /\ key = "C" -> Redraw([v EXCEPT !.line = Following(@, c.lines), !.locked = TRUE])
      [] c.lines # << >> /\ key = "A" -> Pick(v, s, "clearance.request", c.lines[v.line])
      [] OTHER -> Ignored(v)

\* B takes a digit away: a shorter number, or none.
LookupKey(key, v, shorter) ==
    CASE v.number # None /\ key = "B" -> Redraw([v EXCEPT !.number = shorter])
      [] v.number # None /\ key = "A" -> Send(v, "train.lookup", v.number, None)
      [] OTHER -> Ignored(v)

AtDetail(v, place) == Show([v EXCEPT !.move = place, !.number = None, !.found = << >>], "Detail")

Listed(list, i) == list[IF i \in DOMAIN list THEN i ELSE 1]

ResultsKey(key, v, s) ==
    CASE v.found # << >> /\ key = "C" -> Redraw([v EXCEPT !.match = Following(@, v.found), !.locked = TRUE])
      [] v.found # << >> /\ key = "#" /\ Place(s.moves, Listed(v.found, v.match)) # 0 ->
            Redraw(AtDetail(v, Place(s.moves, Listed(v.found, v.match))))
      [] OTHER -> Ignored(v)

CaseKey(key, v, s) ==
    CASE s.cases # << >> /\ key = "C" -> Redraw([v EXCEPT !.case = Following(@, s.cases), !.locked = TRUE])
      [] s.cases # << >> /\ key \in {"A", "B"} ->
            Send(v, "clearance.response", Listed(s.cases, v.case).id, key = "A")
      [] OTHER -> Ignored(v)

MessageKey(key, v, s) ==
    CASE s.messages # << >> /\ key = "C" -> Redraw([v EXCEPT !.case = Following(@, s.messages), !.locked = TRUE])
      [] s.messages # << >> /\ key = "A" ->
            Send(v, "line.available.acknowledge", Listed(s.messages, v.case).id, None)
      [] OTHER -> Ignored(v)

Press(key, v, c, s, shorter) ==
    CASE v.locked -> Ignored(v)
      [] ~v.locked /\ key = "*" -> Back(v)
      [] ~v.locked /\ key \in Numbers -> Type(v, key)
      [] ~v.locked /\ key \in {"A", "B", "C", "#"} ->
            CASE v.screen = "Overview" -> OverviewKey(key, v, s)
              [] v.screen = "Detail" -> DetailKey(key, v, c, s)
              [] v.screen = "TrackPicker" -> TrackKey(key, v, c, s)
              [] v.screen = "LinePicker" -> LineKey(key, v, c, s)
              [] v.screen = "Lookup" -> LookupKey(key, v, shorter)
              [] v.screen = "Results" -> ResultsKey(key, v, s)
              [] v.screen = "CaseInbox" -> CaseKey(key, v, s)
              [] v.screen = "LineInbox" -> MessageKey(key, v, s)
              [] OTHER -> Ignored(v)

\* The answer to a lookup: a single match goes straight to its train.
ApplyLookup(v, s, matches) ==
    IF Len(matches) = 1 /\ Place(s.moves, matches[1]) # 0
    THEN AtDetail([v EXCEPT !.match = 1], Place(s.moves, matches[1]))
    ELSE Show([v EXCEPT !.found = matches, !.match = 1], "Results")

-----------------------------------------------------------------------------
(* A fresh snapshot *)

KeepMovement(v, s) == IF v.move > Len(s.moves) THEN Show([v EXCEPT !.move = 0], "Overview") ELSE v

\* An inbox whose selected row is gone starts over, an empty one is left.
KeepCase(v, screen, list) ==
    IF v.case <= Len(list) \/ v.screen # screen THEN v
    ELSE IF list = << >> THEN Show([v EXCEPT !.case = 1], "Overview") ELSE [v EXCEPT !.case = 1]

Reconcile(v, c, s) ==
    LET kept == KeepCase(KeepCase(KeepMovement(v, s), "CaseInbox", s.cases), "LineInbox", s.messages)
    IN  [kept EXCEPT !.track = IF @ > Len(c.tracks) THEN 1 ELSE @,
                     !.line = IF @ > Len(c.lines) THEN 1 ELSE @]

-----------------------------------------------------------------------------
(* What the display shows: the screen and what the keys would act on. *)

\* Mutated form of OnDisplay: the pickers draw their first row.
OnDisplayFirst(v, c, s) ==
    [screen |-> v.screen,
     on |-> CASE v.screen = "Detail" -> IF s.moves # << >> THEN s.moves[1].id ELSE None
              [] v.screen = "LinePicker" -> IF c.lines # << >> THEN c.lines[1] ELSE None
              [] OTHER -> None]

OnDisplay(v, c, s) ==
    [screen |-> v.screen,
     on |-> CASE v.screen = "Detail" -> IF v.move \in DOMAIN s.moves THEN s.moves[v.move].id ELSE None
              [] v.screen = "TrackPicker" -> IF c.tracks # << >> THEN Listed(c.tracks, v.track) ELSE None
              [] v.screen = "LinePicker" -> IF c.lines # << >> THEN Listed(c.lines, v.line) ELSE None
              [] v.screen = "Lookup" -> v.number
              [] v.screen = "Results" -> IF v.found # << >> THEN Listed(v.found, v.match) ELSE None
              [] v.screen = "CaseInbox" -> IF s.cases # << >> THEN Listed(s.cases, v.case).id ELSE None
              [] v.screen = "LineInbox" -> IF s.messages # << >> THEN Listed(s.messages, v.case).id ELSE None
              [] OTHER -> None]

-----------------------------------------------------------------------------
(* News *)

Deaf == [seeded |-> FALSE, cases |-> {}, messages |-> {}]

CasesOf(s) == {<<s.cases[i].id, s.cases[i].status>> : i \in DOMAIN s.cases}
MessagesOf(s) == {s.messages[i].id : i \in DOMAIN s.messages}

\* Mutated form of Observe: what leaves the snapshot is remembered by nobody, and the first snapshot is news.
ObserveAll(memory, s) ==
    [news |-> {<<"IncomingRequest", s.cases[i].id>> : i \in {i \in DOMAIN s.cases : s.cases[i].to = "us"}},
     memory |-> [seeded |-> TRUE, cases |-> CasesOf(s), messages |-> MessagesOf(s)]]

\* The first snapshot is catching up, not news.  After that a waiting case
\* towards the station, a settled answer to its own and an unseen message are.
Observe(memory, s) ==
    LET known == {case[1] : case \in memory.cases}
        incoming == {i \in DOMAIN s.cases : /\ s.cases[i].id \notin known
                                            /\ s.cases[i].status = "waiting" /\ s.cases[i].to = "us"}
        answered == {i \in DOMAIN s.cases : /\ s.cases[i].id \in known
                                            /\ <<s.cases[i].id, s.cases[i].status>> \notin memory.cases
                                            /\ s.cases[i].status \in {"approved", "rejected"}
                                            /\ s.cases[i].to = "them"}
        unseen == {i \in DOMAIN s.messages : s.messages[i].id \notin memory.messages /\ s.messages[i].to = "us"}
    IN  [news |-> IF ~memory.seeded THEN {}
                  ELSE {<<"IncomingRequest", s.cases[i].id>> : i \in incoming}
                       \cup {<<"Answer", s.cases[i].id>> : i \in answered}
                       \cup {<<"IncomingTrain", s.messages[i].id>> : i \in unseen},
         memory |-> [seeded |-> TRUE, cases |-> CasesOf(s), messages |-> MessagesOf(s)]]
=============================================================================
