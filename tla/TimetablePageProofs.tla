------------------------ MODULE TimetablePageProofs ------------------------
(***************************************************************************)
(* No save, discard or choice replaces edits of the timetable that stood   *)
(* unseen when it was made, for any edits, any number of versions and any  *)
(* order of the answers; and what is typed is kept until it is cancelled   *)
(* or the server has it.                                                   *)
(*                                                                         *)
(* NothingOverwritten is not inductive: a save is accepted on the          *)
(* generation of what the page was given, so everything that the page      *)
(* holds must be true of its own generation (KnownTo), a choice that is    *)
(* shown must be true of its version and revision (HeardOf), a choice that *)
(* stands must count with what it replaces (ChoiceCounts), and the grid    *)
(* must hold at least what the page was given (GridHoldsShown).            *)
(***************************************************************************)
EXTENDS TimetablePage, TLAPS

Snapshot == [base : Nat, revision : Nat, text : SUBSET Edits, generation : Nat]
Choice == [waiting : Nat, revision : Nat, text : SUBSET Edits]

Waitings == Nat \cup {None}
Answers == [of : Nat, what : {"keep", "take"}, known : SUBSET Edits] \cup {None}
Servers ==
    [most : Bounds, base : Nat, revision : Nat, top : Nat, text : SUBSET Edits, generation : Nat,
     waiting : Waitings, choice : Answers]
PageStates ==
    [visible : BOOLEAN, latest : Snapshot \cup {None}, shown : Snapshot \cup {None},
     pending : Choice \cup {None}, failed : BOOLEAN, behind : BOOLEAN]
Saves ==
    [stage : {"write", "read"}, on : Snapshot, draft : SUBSET Edits, got : Snapshot \cup {None}]
Orders == [kind : {"discard"}, on : Snapshot] \cup [kind : {"keep", "take"}, on : Choice]

Shape ==
    /\ server \in Servers
    /\ page \in PageStates
    /\ grid \in [text : SUBSET Edits, edits : SUBSET Edits]
    /\ fetching \in [running : {None, Sent} \cup [got : Snapshot], again : BOOLEAN]
    /\ save \in Saves \cup {None}
    /\ order \in Orders \cup {None}

\* A reading is of the past, and one of the present generation is what the server has.
KnownTo(s, r) ==
    /\ r.generation <= s.generation
    /\ r.generation = s.generation =>
         r.base = s.base /\ r.revision = s.revision /\ r.text = s.text

\* A choice is between a version that has been published and edits of its base; when that
\* version still waits, edits of the same revision are the same edits.
Newest(s) == IF s.waiting = None THEN s.base ELSE s.waiting
HeardOf(s, p) ==
    /\ p.waiting # None /\ p.revision # 0
    /\ p.waiting <= Newest(s)
    /\ p.waiting = s.waiting =>
         /\ p.revision <= s.top
         /\ p.revision = s.revision => p.text = s.text

\* A choice is of a version that was published, and counts with the edits that it replaces
\* when that version still waits.
ChoiceCounts(s) ==
    s.choice # None =>
        /\ s.choice.of <= Newest(s)
        /\ s.choice.of = s.waiting => s.text \subseteq s.choice.known

Numbered(s) == s.generation # 0 /\ s.revision <= s.top /\ ChoiceCounts(s)

ReadingsAreKnown(s) ==
    /\ page.latest # None => KnownTo(s, page.latest)
    /\ page.shown # None => KnownTo(s, page.shown)
    /\ fetching.running \notin {None, Sent} => KnownTo(s, fetching.running.got)
    /\ save # None => KnownTo(s, save.on) /\ (save.got # None => KnownTo(s, save.got))
    /\ order # None /\ order.kind = "discard" => KnownTo(s, order.on)

ChoicesAreHeard(s) ==
    /\ page.pending # None => HeardOf(s, page.pending)
    /\ order # None /\ order.kind # "discard" => HeardOf(s, order.on)

\* Nothing is typed or saved before something is shown, and what is shown has been read.
EditsAreOfShown ==
    /\ grid.edits # {} => page.shown # None
    /\ page.shown # None => page.latest # None
    /\ save # None => page.shown # None

GridHoldsShown == page.shown # None => page.shown.text \subseteq grid.text \cup grid.edits

\* What is saved is the grid, and the server answers with it.
DraftIsGrid ==
    save # None =>
        /\ grid.edits \subseteq save.draft
        /\ save.stage = "write" =>
             /\ save.on.text \subseteq save.draft
             /\ save.draft = grid.text \cup grid.edits
             /\ save.got \notin {None, Refusal} => save.got.text = save.draft

Safe ==
    /\ Shape /\ Numbered(server)
    /\ ReadingsAreKnown(server) /\ ChoicesAreHeard(server)
    /\ EditsAreOfShown /\ GridHoldsShown /\ DraftIsGrid
    /\ NothingOverwritten

-----------------------------------------------------------------------------
(* The server goes forward. *)

Forward(s, t) ==
    \/ t.generation > s.generation
    \/ /\ t.generation = s.generation /\ t.base = s.base
       /\ t.revision = s.revision /\ t.text = s.text

ForwardForChoices(s, t) ==
    /\ Newest(s) <= Newest(t)
    /\ \/ t.waiting = None
       \/ t.waiting > Newest(s)
       \/ /\ t.waiting = s.waiting /\ s.top <= t.top
          /\ \/ t.revision = s.revision /\ t.text = s.text
             \/ t.revision > s.top
             \/ t.revision = 0

\* A reading that was true of its generation stays so.
LEMMA KnownStaysKnown ==
    ASSUME NEW s \in Servers, NEW t \in Servers, Forward(s, t),
           NEW r \in Snapshot, KnownTo(s, r)
    PROVE  KnownTo(t, r)
BY DEF Servers, Snapshot, Forward, KnownTo

\* A choice that was true of its version and revision stays so.
LEMMA HeardStaysHeard ==
    ASSUME NEW s \in Servers, NEW t \in Servers, ForwardForChoices(s, t),
           NEW p \in Choice, HeardOf(s, p)
    PROVE  HeardOf(t, p)
<1>1. p.waiting \in Nat /\ p.revision \in Nat /\ s.top \in Nat /\ t.top \in Nat
      /\ t.revision \in Nat /\ Newest(s) \in Nat /\ Newest(t) \in Nat
  BY DEF Servers, Waitings, Choice, Newest
<1>2. p.waiting <= Newest(t)
  BY <1>1 DEF ForwardForChoices, HeardOf
<1>3. ASSUME p.waiting = t.waiting
      PROVE  p.revision <= t.top /\ (p.revision = t.revision => p.text = t.text)
  <2>1. t.waiting = s.waiting /\ s.top <= t.top
    BY <1>1, <1>3 DEF ForwardForChoices, HeardOf
  <2>2. p.revision <= s.top /\ (p.revision = s.revision => p.text = s.text) /\ p.revision # 0
    BY <1>3, <2>1 DEF HeardOf
  <2> QED
    BY <1>1, <1>3, <2>1, <2>2 DEF ForwardForChoices, HeardOf
<1> QED
  BY <1>2, <1>3 DEF HeardOf

\* What a command of the server does to what was read of it: nothing.
Advances(t) ==
    t \in Servers /\ Numbered(t) /\ Forward(server, t) /\ ForwardForChoices(server, t)

\* Whatever the server does, what the page holds stays true of it.
LEMMA HoldingsStayTrue ==
    ASSUME Safe, NEW t, Advances(t)
    PROVE  ReadingsAreKnown(t) /\ ChoicesAreHeard(t)
<1>1. server \in Servers /\ t \in Servers /\ Forward(server, t) /\ ForwardForChoices(server, t)
  BY DEF Safe, Shape, Advances
<1>2. \A r \in Snapshot : KnownTo(server, r) => KnownTo(t, r)
  BY <1>1, KnownStaysKnown
<1>3. \A p \in Choice : HeardOf(server, p) => HeardOf(t, p)
  BY <1>1, HeardStaysHeard
<1>4. ReadingsAreKnown(t)
  BY <1>2 DEF Safe, Shape, PageStates, Saves, Orders, ReadingsAreKnown
<1>5. ChoicesAreHeard(t)
  BY <1>3 DEF Safe, Shape, PageStates, Orders, ChoicesAreHeard
<1> QED
  BY <1>4, <1>5

\* A save starts a generation with a revision that was never used on its base.
LEMMA SavedAdvances ==
    ASSUME server \in Servers, Numbered(server), NEW text \in SUBSET Edits
    PROVE  Advances(Saved(server, text))
<1> DEFINE t == Saved(server, text)
<1>0. /\ t.choice \in Answers /\ t.text = text
      /\ t.choice = Counted(server.choice, text \ server.text)
      /\ t.choice # None =>
           /\ server.choice # None /\ t.choice.of = server.choice.of
           /\ t.choice.known = server.choice.known \cup (text \ server.text)
  <2>1. server.choice \in Answers /\ server.text \in SUBSET Edits
    BY DEF Servers
  <2>2. Counted(server.choice, text \ server.text) \in Answers
    BY <2>1 DEF Counted, Answers
  <2>3. t.choice = Counted(server.choice, text \ server.text) /\ t.text = text
    BY DEF Servers, Saved
  <2> QED
    BY <2>1, <2>2, <2>3 DEF Counted, Answers
<1>1. /\ t.generation = server.generation + 1
      /\ t.revision = server.top + 1 /\ t.top = server.top + 1
      /\ t.waiting = server.waiting /\ t.base = server.base
  BY DEF Servers, Saved, NewRevision
<1>2. t \in Servers
  <2>1. server.top + 1 \in Nat /\ server.generation + 1 \in Nat
    BY DEF Servers
  <2> QED
    BY <2>1, <1>0 DEF Servers, Saved, NewRevision
<1>3. /\ server.generation \in Nat /\ server.top \in Nat /\ server.base \in Nat
      /\ Newest(server) \in Nat
  BY DEF Servers, Waitings, Newest
<1>4. Newest(t) = Newest(server)
  BY <1>1 DEF Newest
<1> HIDE DEF t
<1>5. ChoiceCounts(t)
  BY <1>0, <1>1, <1>4 DEF Numbered, ChoiceCounts
<1>6. Numbered(t) /\ Forward(server, t)
  BY <1>1, <1>3, <1>5 DEF Numbered, Forward
<1>7. ForwardForChoices(server, t)
  BY <1>1, <1>3, <1>4 DEF ForwardForChoices
<1> QED
  BY <1>2, <1>6, <1>7 DEF Advances, t

\* A discard starts a generation, and leaves the numbers of the revisions used.
LEMMA DiscardedAdvances ==
    ASSUME server \in Servers, Numbered(server)
    PROVE  Advances(Discarded(server))
<1> DEFINE t == Discarded(server)
<1>1. /\ t.generation = server.generation + 1
      /\ t.revision = 0 /\ t.top = server.top
      /\ t.waiting = server.waiting /\ t.base = server.base
      /\ t.text = {} /\ t.choice = server.choice
  BY DEF Servers, Discarded
<1>2. t \in Servers
  <2>1. server.generation + 1 \in Nat
    BY DEF Servers
  <2> QED
    BY <2>1 DEF Servers, Discarded
<1>3. /\ server.generation \in Nat /\ server.top \in Nat /\ server.base \in Nat
      /\ Newest(server) \in Nat
  BY DEF Servers, Waitings, Newest
<1>4. Newest(t) = Newest(server)
  BY <1>1 DEF Newest
<1> HIDE DEF t
<1>5. ChoiceCounts(t)
  BY <1>1, <1>4 DEF Numbered, ChoiceCounts
<1>6. Numbered(t) /\ Forward(server, t)
  BY <1>1, <1>3, <1>5 DEF Numbered, Forward
<1>7. ForwardForChoices(server, t)
  BY <1>1, <1>3, <1>4 DEF ForwardForChoices
<1> QED
  BY <1>2, <1>6, <1>7 DEF Advances, t

\* So do the steps that the server takes of its own or for others; a version that is
\* delivered was waiting, and one that is published has a higher number than all before.
LEMMA ServerStepsAdvance ==
    ASSUME None \notin Nat, server \in Servers, Numbered(server), ServerSteps
    PROVE  Advances(server')
<1>0. /\ server.generation \in Nat /\ server.top \in Nat /\ server.base \in Nat
      /\ Newest(server) \in Nat /\ server.waiting \in Nat \cup {None}
  BY DEF Servers, Waitings, Newest
<1>1. ASSUME NEW e \in Others, server' = Saved(server, server.text \cup {e})
      PROVE  Advances(server')
  <2>1. server.text \cup {e} \in SUBSET Edits
    BY DEF Servers, Edits
  <2> QED
    BY <1>1, <2>1, SavedAdvances
<1>2. ASSUME server' = Discarded(server)
      PROVE  Advances(server')
  BY <1>2, DiscardedAdvances
<1>3. ASSUME server' = [server EXCEPT !.generation = @ + 1]
      PROVE  Advances(server')
  <2>1. /\ server'.generation = server.generation + 1
        /\ server'.revision = server.revision /\ server'.top = server.top
        /\ server'.text = server.text /\ server'.choice = server.choice
        /\ server'.waiting = server.waiting /\ server'.base = server.base
    BY <1>3 DEF Servers
  <2>2. server' \in Servers
    BY <1>3 DEF Servers
  <2>3. Newest(server') = Newest(server)
    BY <2>1 DEF Newest
  <2>4. Numbered(server') /\ Forward(server, server')
    BY <1>0, <2>1, <2>3 DEF Numbered, Forward, ChoiceCounts
  <2>5. ForwardForChoices(server, server')
    BY <1>0, <2>1, <2>3 DEF ForwardForChoices
  <2> QED
    BY <2>2, <2>4, <2>5 DEF Advances
<1>4. CASE Publish
  <2> DEFINE next == Newest(server) + 1
  <2>1. server' = [server EXCEPT !.waiting = next]
    BY <1>4 DEF Publish, Tells, Newest
  <2>2. /\ server'.generation = server.generation /\ server'.base = server.base
        /\ server'.revision = server.revision /\ server'.top = server.top
        /\ server'.text = server.text /\ server'.waiting = next
        /\ server'.choice = server.choice
    BY <2>1 DEF Servers
  <2>3. server' \in Servers
    <3>1. next \in Waitings
      BY <1>0 DEF Waitings
    <3> QED
      BY <2>1, <3>1 DEF Servers
  <2>4. Newest(server') = next
    BY <1>0, <2>2 DEF Newest
  <2>5. ChoiceCounts(server')
    <3>1. server.choice # None => server.choice.of \in Nat
      BY DEF Servers, Answers
    <3> QED
      BY <1>0, <2>2, <2>4, <3>1 DEF Numbered, ChoiceCounts
  <2>7. Numbered(server') /\ Forward(server, server')
    BY <2>2, <2>5 DEF Numbered, Forward
  <2>6. ForwardForChoices(server, server')
    BY <1>0, <2>2, <2>4 DEF ForwardForChoices
  <2> QED
    BY <2>3, <2>7, <2>6 DEF Advances
<1>5. CASE Deliver
  <2>1. server.waiting \in Nat /\ Newest(server) = server.waiting
    BY <1>0, <1>5 DEF Deliver, MayDeliver, Newest
  <2>2. server' = [server EXCEPT !.base = server.waiting, !.revision = 0, !.top = 0, !.text = {},
                                 !.generation = @ + 1, !.waiting = None, !.choice = None]
    BY <1>5 DEF Deliver, Tells
  <2>3. /\ server'.generation = server.generation + 1 /\ server'.base = server.waiting
        /\ server'.revision = 0 /\ server'.top = 0 /\ server'.waiting = None
        /\ server'.choice = None
    BY <2>2 DEF Servers
  <2>4. server' \in Servers
    <3>1. None \in Waitings /\ None \in Answers /\ server.generation + 1 \in Nat
      BY <1>0 DEF Waitings, Answers
    <3> QED
      BY <2>1, <2>2, <3>1 DEF Servers
  <2>5. Newest(server') = Newest(server)
    BY <2>1, <2>3 DEF Newest
  <2>6. Numbered(server') /\ Forward(server, server')
    BY <1>0, <2>3 DEF Numbered, Forward, ChoiceCounts
  <2>7. ForwardForChoices(server, server')
    BY <1>0, <2>3, <2>5 DEF ForwardForChoices
  <2> QED
    BY <2>4, <2>6, <2>7 DEF Advances
<1> QED
  BY <1>1, <1>2, <1>3, <1>4, <1>5
     DEF ServerSteps, OthersSave, OthersDiscard, NewDay, Tells

-----------------------------------------------------------------------------
(* The page. *)

\* Nothing has been read, typed or chosen at first.
LEMMA InitIsSafe ==
    ASSUME None \notin Nat, Init
    PROVE  Safe
<1>1. Shape
  BY DEF Init, Shape, Servers, Waitings, Answers, PageStates, Idle
<1>2. Numbered(server)
  BY DEF Init, Numbered, ChoiceCounts
<1> QED
  BY <1>1, <1>2 DEF Init, Safe, Idle, ReadingsAreKnown, ChoicesAreHeard, EditsAreOfShown,
                    GridHoldsShown, DraftIsGrid, NothingOverwritten

\* A reading of the server is true of it, and so is what it says of a choice.
LEMMA ReadingIsKnown ==
    ASSUME server \in Servers, Numbered(server)
    PROVE  /\ Reading \in Snapshot /\ KnownTo(server, Reading)
           /\ Refusal \in Snapshot /\ KnownTo(server, Refusal)
BY DEF Servers, Numbered, Reading, Refusal, Snapshot, KnownTo

LEMMA PendingIsHeard ==
    ASSUME None \notin Nat, server \in Servers, Numbered(server), Pending # None
    PROVE  Pending \in Choice /\ HeardOf(server, Pending)
<1>1. /\ Pending = [waiting |-> server.waiting, revision |-> server.revision, text |-> server.text]
      /\ server.waiting # None /\ server.revision # 0
  BY DEF Pending
<1>2. server.waiting \in Nat /\ server.revision \in Nat /\ server.text \in SUBSET Edits
  BY <1>1 DEF Servers, Waitings
<1> QED
  BY <1>1, <1>2 DEF Choice, HeardOf, Newest, Numbered

\* A version is delivered on a choice that counts with what it replaces.
LEMMA DeliveringIsCounted ==
    ASSUME server \in Servers, Numbered(server), Deliver
    PROVE  overwritten' = overwritten
<1>1. CASE server.revision = 0
  BY <1>1 DEF Deliver
<1>2. CASE server.revision # 0
  <2>1. server.text \subseteq server.choice.known
    BY <1>2 DEF Deliver, MayDeliver, Chosen, Numbered, ChoiceCounts
  <2> QED
    BY <1>2, <2>1 DEF Deliver, Unseen
<1> QED
  BY <1>1, <1>2

\* The server's own steps, and those of others.
LEMMA ServerStepsAreSafe ==
    ASSUME None \notin Nat, Safe, ServerSteps
    PROVE  Safe'
<1>1. Advances(server')
  BY ServerStepsAdvance DEF Safe, Shape
<1>2. ReadingsAreKnown(server') /\ ChoicesAreHeard(server')
  BY <1>1, HoldingsStayTrue
<1>3. UNCHANGED <<page, grid, fetching, save, order, overwritten>>
  <2>1. ASSUME Deliver PROVE UNCHANGED <<page, grid, fetching, save, order, overwritten>>
    <3>1. overwritten' = overwritten
      BY <2>1, DeliveringIsCounted DEF Safe, Shape
    <3> QED
      BY <2>1, <3>1 DEF Deliver
  <2> QED
    BY <2>1 DEF ServerSteps, OthersSave, OthersDiscard, NewDay, Publish
<1>4. Shape' /\ Numbered(server)'
  BY <1>1, <1>3 DEF Safe, Shape, Advances
<1>5. ReadingsAreKnown(server)' /\ ChoicesAreHeard(server)'
  BY <1>2, <1>3 DEF ReadingsAreKnown, ChoicesAreHeard
<1> QED
  BY <1>3, <1>4, <1>5
     DEF Safe, EditsAreOfShown, GridHoldsShown, DraftIsGrid, NothingOverwritten

\* A save is accepted on the generation of what was shown: nothing is replaced unseen.
LEMMA ServerSavesIsSafe ==
    ASSUME Safe, ServerSaves
    PROVE  Safe'
<1>1. /\ save \in Saves /\ save # None /\ save.stage = "write" /\ save.got = None
      /\ server \in Servers /\ Numbered(server)
      /\ UNCHANGED <<page, grid, fetching, order>>
  BY DEF Safe, Shape, ServerSaves
<1>2. /\ save.on \in Snapshot /\ save.draft \in SUBSET Edits
      /\ KnownTo(server, save.on) /\ save.on.text \subseteq save.draft
  BY <1>1 DEF Safe, Saves, ReadingsAreKnown, DraftIsGrid
<1>3. CASE Matches(save.on)
  <2> DEFINE t == Saved(server, save.draft)
             answer == [base |-> t.base, revision |-> t.revision, text |-> t.text,
                        generation |-> t.generation]
  <2>1. /\ server' = t /\ save' = [save EXCEPT !.got = answer]
        /\ overwritten' = overwritten \cup Unseen(save.draft)
    BY <1>3 DEF ServerSaves, Tells
  <2>2. Advances(t)
    BY <1>1, <1>2, SavedAdvances
  <2>3. ReadingsAreKnown(t) /\ ChoicesAreHeard(t)
    BY <2>2, HoldingsStayTrue
  <2>4. t.text = save.draft
    BY <1>1 DEF Saved, Servers
  <2>5. answer \in Snapshot /\ KnownTo(t, answer) /\ answer.text = save.draft
    BY <2>2, <2>4 DEF Advances, Servers, Snapshot, KnownTo
  <2>6. Unseen(save.draft) = {}
    BY <1>2, <1>3 DEF Matches, KnownTo, Unseen
  <2> HIDE DEF t, answer
  <2>7. save' \in Saves /\ save'.on = save.on /\ save'.got = answer
        /\ save'.draft = save.draft /\ save'.stage = save.stage
    BY <1>1, <2>1, <2>5 DEF Saves
  <2>8. Shape' /\ Numbered(server)'
    BY <1>1, <2>1, <2>2, <2>7 DEF Safe, Shape, Advances
  <2>9. ReadingsAreKnown(server)' /\ ChoicesAreHeard(server)'
    BY <1>1, <2>1, <2>3, <2>5, <2>7 DEF ReadingsAreKnown, ChoicesAreHeard
  <2> QED
    BY <1>1, <2>1, <2>5, <2>6, <2>7, <2>8, <2>9
       DEF Safe, EditsAreOfShown, GridHoldsShown, DraftIsGrid, NothingOverwritten
<1>4. CASE ~Matches(save.on)
  <2>1. save' = [save EXCEPT !.got = Refusal] /\ UNCHANGED <<server, overwritten>>
    BY <1>4 DEF ServerSaves
  <2>2. Refusal \in Snapshot /\ KnownTo(server, Refusal)
    BY <1>1, ReadingIsKnown
  <2>3. save' \in Saves /\ save'.on = save.on /\ save'.got = Refusal
        /\ save'.draft = save.draft /\ save'.stage = save.stage
    BY <1>1, <2>1, <2>2 DEF Saves
  <2>4. Shape' /\ Numbered(server)'
    BY <1>1, <2>1, <2>3 DEF Safe, Shape
  <2>5. ReadingsAreKnown(server)' /\ ChoicesAreHeard(server)'
    BY <1>1, <2>1, <2>2, <2>3 DEF Safe, ReadingsAreKnown, ChoicesAreHeard
  <2> QED
    BY <1>1, <2>1, <2>3, <2>4, <2>5
       DEF Safe, EditsAreOfShown, GridHoldsShown, DraftIsGrid, NothingOverwritten
<1> QED
  BY <1>3, <1>4

\* What is read is true of the server.
LEMMA ServerReadsIsSafe ==
    ASSUME Safe, ServerReads
    PROVE  Safe'
<1>1. /\ Reading \in Snapshot /\ KnownTo(server, Reading)
      /\ UNCHANGED <<server, page, grid, order, overwritten>>
  BY ReadingIsKnown DEF Safe, Shape, ServerReads
<1>2. CASE fetching' = [fetching EXCEPT !.running = [got |-> Reading]] /\ UNCHANGED save
  <2>1. Shape'
    BY <1>1, <1>2 DEF Safe, Shape
  <2>2. fetching'.running = [got |-> Reading]
    BY <1>2 DEF Safe, Shape
  <2>3. ReadingsAreKnown(server)' /\ ChoicesAreHeard(server)'
    BY <1>1, <1>2, <2>2 DEF Safe, ReadingsAreKnown, ChoicesAreHeard
  <2> QED
    BY <1>1, <1>2, <2>1, <2>3
       DEF Safe, EditsAreOfShown, GridHoldsShown, DraftIsGrid, NothingOverwritten
<1>3. CASE /\ save # None /\ save.stage = "read" /\ save' = [save EXCEPT !.got = Reading]
           /\ UNCHANGED fetching
  <2>1. save' \in Saves /\ save'.on = save.on /\ save'.got = Reading
        /\ save'.draft = save.draft /\ save'.stage = "read"
    BY <1>1, <1>3 DEF Safe, Shape, Saves
  <2>2. Shape'
    BY <1>1, <1>3, <2>1 DEF Safe, Shape
  <2>3. ReadingsAreKnown(server)' /\ ChoicesAreHeard(server)'
    BY <1>1, <1>3, <2>1 DEF Safe, ReadingsAreKnown, ChoicesAreHeard
  <2> QED
    BY <1>1, <1>3, <2>1, <2>2, <2>3
       DEF Safe, EditsAreOfShown, GridHoldsShown, DraftIsGrid, NothingOverwritten
<1> QED
  BY <1>2, <1>3 DEF ServerReads

\* A discard is made on the generation of what the page lists, a choice on the version that
\* waits and the revision it would replace.
LEMMA ObeyingIsSeen ==
    ASSUME Safe, order # None, ServerObeys
    PROVE  Advances(server') /\ overwritten' = overwritten
<1>1. order \in Orders /\ server \in Servers /\ Numbered(server)
  BY DEF Safe, Shape
<1>2. CASE order.kind = "discard" /\ MayDiscard(order.on)
  <2>1. server' = Discarded(server)
    BY <1>2 DEF ServerObeys, Tells
  <2>2. KnownTo(server, order.on)
    BY <1>2 DEF Safe, ReadingsAreKnown
  <2>3. Unseen(order.on.text) = {}
    BY <1>2, <2>2 DEF MayDiscard, KnownTo, Unseen
  <2> QED
    BY <1>1, <1>2, <2>1, <2>3, DiscardedAdvances DEF ServerObeys
<1>3. CASE order.kind # "discard" /\ MayDecide(order.on)
  <2>1. /\ server' = [server EXCEPT !.choice = [of |-> order.on.waiting, what |-> order.kind,
                                                known |-> order.on.text]]
        /\ overwritten' = overwritten
    BY <1>3 DEF ServerObeys, Tells
  <2>2. order.on \in Choice /\ order.kind \in {"keep", "take"}
    BY <1>1, <1>3 DEF Orders
  <2>3. HeardOf(server, order.on)
    BY <1>3 DEF Safe, ChoicesAreHeard
  <2>4. /\ order.on.waiting <= Newest(server) /\ order.on.waiting = server.waiting
        /\ order.on.text = server.text
    BY <1>3, <2>3 DEF MayDecide, HeardOf
  <2>5. [of |-> order.on.waiting, what |-> order.kind, known |-> order.on.text] \in Answers
    BY <2>2 DEF Choice, Answers
  <2>6. server' \in Servers
    BY <1>1, <2>1, <2>5 DEF Servers
  <2>7. /\ server'.generation = server.generation /\ server'.base = server.base
        /\ server'.revision = server.revision /\ server'.top = server.top
        /\ server'.text = server.text /\ server'.waiting = server.waiting
        /\ server'.choice.of = order.on.waiting /\ server'.choice.known = order.on.text
    BY <1>1, <2>1 DEF Servers
  <2>8. Newest(server) \in Nat /\ Newest(server') = Newest(server) /\ server.top \in Nat
    BY <1>1, <2>7 DEF Servers, Waitings, Newest
  <2>9. Numbered(server') /\ Forward(server, server')
    BY <1>1, <2>4, <2>7, <2>8 DEF Numbered, Forward, ChoiceCounts
  <2>10. ForwardForChoices(server, server')
    BY <2>7, <2>8 DEF ForwardForChoices
  <2> QED
    BY <2>1, <2>4, <2>6, <2>9, <2>10 DEF Advances
<1> QED
  BY <1>2, <1>3 DEF ServerObeys

\* Giving the grid what was read: only when nothing is unsaved, so nothing is lost by it.
LEMMA OfferingIsSound ==
    ASSUME NEW p \in PageStates, NEW g \in [text : SUBSET Edits, edits : SUBSET Edits],
           NEW w, Offered(p, g, w)
    PROVE  /\ page' \in PageStates /\ grid' \in [text : SUBSET Edits, edits : SUBSET Edits]
           /\ page'.latest = p.latest /\ page'.pending = p.pending
           /\ \/ grid' = g /\ page'.shown = p.shown
              \/ /\ g.edits = {} /\ w = None /\ p.latest # None /\ page'.shown = p.latest
                 /\ grid'.text = p.latest.text /\ grid'.edits = {}
<1>1. CASE p.latest # None /\ Offers(g, w)
  <2>1. page' = [p EXCEPT !.shown = p.latest] /\ grid' = [text |-> p.latest.text, edits |-> {}]
    BY <1>1 DEF Offered, Fresh
  <2>2. p.latest \in Snapshot /\ p.latest.text \in SUBSET Edits
    BY <1>1 DEF PageStates, Snapshot
  <2> QED
    BY <1>1, <2>1, <2>2 DEF PageStates, Offers, Clean
<1>2. CASE ~(p.latest # None /\ Offers(g, w))
  BY <1>2 DEF Offered
<1> QED
  BY <1>1, <1>2

\* What is heard is given to the grid when it is the first, or nothing is unsaved.
LEMMA LoadHeardIsSafe ==
    ASSUME None \notin Snapshot, Safe, LoadHeard
    PROVE  Safe' /\ (grid' # grid => grid.edits = {})
<1> DEFINE r == fetching.running.got
           p == [page EXCEPT !.latest = r, !.failed = FALSE, !.behind = FALSE]
<1>1. /\ fetching.running \in [got : Snapshot] /\ KnownTo(server, r)
      /\ fetching' = Done(fetching)
      /\ UNCHANGED <<server, save, order, overwritten>>
  BY DEF Safe, Shape, ReadingsAreKnown, LoadHeard
<1>2. r \in Snapshot /\ r # None
  BY <1>1
<1>3. /\ p \in PageStates /\ p.latest = r /\ p.shown = page.shown /\ p.pending = page.pending
  BY <1>2 DEF Safe, Shape, PageStates
<1>4. fetching' \in [running : {None, Sent} \cup [got : Snapshot], again : BOOLEAN]
      /\ fetching'.running \in {None, Sent}
  BY <1>1 DEF Safe, Shape, Done, Idle
<1>5. /\ page' \in PageStates /\ page'.latest = r /\ page'.pending = page.pending
      /\ grid' \in [text : SUBSET Edits, edits : SUBSET Edits]
      /\ \/ grid' = grid /\ page'.shown = page.shown /\ page.shown # None
         \/ /\ grid.edits = {} /\ save = None /\ page'.shown = r
            /\ grid'.text = r.text /\ grid'.edits = {}
  <2>1. CASE page.shown = None
    <3>1. page' = [p EXCEPT !.shown = r] /\ grid' = [text |-> r.text, edits |-> {}]
      BY <1>3, <2>1 DEF LoadHeard, Fresh
    <3>2. r.text \in SUBSET Edits
      BY <1>2 DEF Snapshot
    <3>3. save = None /\ grid.edits = {}
      BY <2>1 DEF Safe, EditsAreOfShown
    <3> QED
      BY <1>2, <1>3, <3>1, <3>2, <3>3 DEF PageStates
  <2>2. CASE page.shown # None
    <3>1. Offered(p, grid, save)
      BY <2>2 DEF LoadHeard
    <3>2. grid \in [text : SUBSET Edits, edits : SUBSET Edits]
      BY DEF Safe, Shape
    <3> HIDE DEF p, r
    <3> QED
      BY <1>3, <2>2, <3>1, <3>2, OfferingIsSound
  <2> QED
    BY <2>1, <2>2
<1> HIDE DEF p
<1>6. Shape' /\ Numbered(server)'
  BY <1>1, <1>4, <1>5 DEF Safe, Shape
<1>7. ReadingsAreKnown(server)' /\ ChoicesAreHeard(server)'
  BY <1>1, <1>4, <1>5 DEF Safe, ReadingsAreKnown, ChoicesAreHeard
<1> QED
  BY <1>1, <1>2, <1>5, <1>6, <1>7
     DEF Safe, EditsAreOfShown, GridHoldsShown, DraftIsGrid, NothingOverwritten

\* The choice that is heard is of what the server has.
LEMMA PendingHeardIsSafe ==
    ASSUME None \notin Nat, Safe, PendingHeard
    PROVE  Safe'
<1>1. PICK c \in {Pending, None} : page' = [page EXCEPT !.pending = c]
  BY DEF PendingHeard
<1>2. UNCHANGED <<server, grid, fetching, save, order, overwritten>>
  BY DEF PendingHeard
<1>3. c # None => c \in Choice /\ HeardOf(server, c)
  BY PendingIsHeard DEF Safe, Shape
<1>4. /\ page' \in PageStates /\ page'.latest = page.latest /\ page'.shown = page.shown
      /\ page'.pending = c
  BY <1>1, <1>3 DEF Safe, Shape, PageStates
<1>5. Shape' /\ Numbered(server)'
  BY <1>2, <1>4 DEF Safe, Shape
<1>6. ReadingsAreKnown(server)' /\ ChoicesAreHeard(server)'
  BY <1>2, <1>3, <1>4 DEF Safe, ReadingsAreKnown, ChoicesAreHeard
<1> QED
  BY <1>2, <1>4, <1>5, <1>6
     DEF Safe, EditsAreOfShown, GridHoldsShown, DraftIsGrid, NothingOverwritten

\* A request that is sent or lost holds nothing.
LEMMA AskingIsSafe ==
    ASSUME Safe, fetching' \in {fetching, Load(fetching), Done(fetching)},
           page' \in PageStates, page'.latest = page.latest, page'.shown = page.shown,
           page'.pending = page.pending,
           UNCHANGED <<server, grid, save, order, overwritten>>
    PROVE  Safe'
<1>1. fetching' \in [running : {None, Sent} \cup [got : Snapshot], again : BOOLEAN]
      /\ (fetching'.running = fetching.running \/ fetching'.running \in {None, Sent})
  <2>1. CASE fetching' \in {fetching, Load(fetching)}
    BY <2>1 DEF Safe, Shape, Load
  <2>2. CASE fetching' = Done(fetching)
    BY <2>2 DEF Safe, Shape, Done, Idle
  <2> QED
    BY <2>1, <2>2
<1>2. Shape' /\ Numbered(server)'
  BY <1>1 DEF Safe, Shape
<1>3. ReadingsAreKnown(server)' /\ ChoicesAreHeard(server)'
  BY <1>1 DEF Safe, ReadingsAreKnown, ChoicesAreHeard
<1> QED
  BY <1>2, <1>3 DEF Safe, EditsAreOfShown, GridHoldsShown, DraftIsGrid, NothingOverwritten

\* A keystroke adds an edit to what is shown.
LEMMA TypeIsSafe ==
    ASSUME Safe, NEW e \in Mine, Type(e)
    PROVE  Safe' /\ grid.edits \subseteq grid'.edits
<1>1. /\ page.shown # None /\ save = None
      /\ grid' = [grid EXCEPT !.edits = @ \cup {e}]
      /\ UNCHANGED <<server, page, fetching, save, order, overwritten>>
  BY DEF Type
<1>2. /\ grid' \in [text : SUBSET Edits, edits : SUBSET Edits]
      /\ grid'.text = grid.text /\ grid'.edits = grid.edits \cup {e}
  BY <1>1 DEF Safe, Shape, Edits
<1>3. Shape' /\ Numbered(server)'
  BY <1>1, <1>2 DEF Safe, Shape
<1>4. ReadingsAreKnown(server)' /\ ChoicesAreHeard(server)'
  BY <1>1 DEF Safe, ReadingsAreKnown, ChoicesAreHeard
<1> QED
  BY <1>1, <1>2, <1>3, <1>4
     DEF Safe, EditsAreOfShown, GridHoldsShown, DraftIsGrid, NothingOverwritten

\* A cancelled edit leaves what was shown, or what was read last.
LEMMA CancelIsSafe ==
    ASSUME Safe, Cancel
    PROVE  Safe'
<1> DEFINE g == Fresh(page.shown)
<1>1. /\ page.shown # None /\ save = None /\ Offered(page, g, None)
      /\ UNCHANGED <<server, fetching, save, order, overwritten>>
  BY DEF Safe, EditsAreOfShown, Cancel
<1>2. page \in PageStates /\ page.shown \in Snapshot /\ page.latest # None
  BY <1>1 DEF Safe, Shape, PageStates, EditsAreOfShown
<1>3. g \in [text : SUBSET Edits, edits : SUBSET Edits] /\ g.text = page.shown.text /\ g.edits = {}
  BY <1>2 DEF Fresh, Snapshot
<1> HIDE DEF g
<1>4. /\ page' \in PageStates /\ grid' \in [text : SUBSET Edits, edits : SUBSET Edits]
      /\ page'.latest = page.latest /\ page'.pending = page.pending /\ grid'.edits = {}
      /\ page'.shown \in {page.shown, page.latest} /\ page'.shown.text = grid'.text
  BY <1>1, <1>2, <1>3, OfferingIsSound
<1>5. Shape' /\ Numbered(server)'
  BY <1>1, <1>4 DEF Safe, Shape
<1>6. ReadingsAreKnown(server)' /\ ChoicesAreHeard(server)'
  BY <1>1, <1>4 DEF Safe, ReadingsAreKnown, ChoicesAreHeard
<1> QED
  BY <1>1, <1>2, <1>4, <1>5, <1>6
     DEF Safe, EditsAreOfShown, GridHoldsShown, DraftIsGrid, NothingOverwritten

\* The draft holds what was shown and what was typed.
LEMMA SaveIsSafe ==
    ASSUME Safe, Save
    PROVE  Safe'
<1>1. /\ page.shown # None
      /\ save' = [stage |-> "write", on |-> page.shown, draft |-> grid.text \cup grid.edits, got |-> None]
      /\ UNCHANGED <<server, page, grid, fetching, order, overwritten>>
  BY DEF Safe, EditsAreOfShown, Save
<1>2. page.shown \in Snapshot /\ grid.text \cup grid.edits \in SUBSET Edits
  BY <1>1 DEF Safe, Shape, PageStates
<1>3. save' \in Saves /\ save'.stage = "write" /\ save'.on = page.shown
      /\ save'.draft = grid.text \cup grid.edits /\ save'.got = None
  BY <1>1, <1>2 DEF Saves
<1>4. Shape' /\ Numbered(server)'
  BY <1>1, <1>3 DEF Safe, Shape
<1>5. ReadingsAreKnown(server)' /\ ChoicesAreHeard(server)'
  BY <1>1, <1>3 DEF Safe, ReadingsAreKnown, ChoicesAreHeard
<1> QED
  BY <1>1, <1>3, <1>4, <1>5
     DEF Safe, EditsAreOfShown, GridHoldsShown, DraftIsGrid, NothingOverwritten

\* A save that is refused, blocked or lost leaves the grid as it is.
LEMMA SaveRefusedIsSafe ==
    ASSUME Safe, SaveRefused
    PROVE  Safe'
<1>1. /\ save' = None /\ fetching' \in {fetching, Load(fetching)}
      /\ UNCHANGED <<server, page, grid, order, overwritten>>
  BY DEF SaveRefused
<1>2. fetching' \in [running : {None, Sent} \cup [got : Snapshot], again : BOOLEAN]
      /\ (fetching'.running = fetching.running \/ fetching'.running = Sent)
  BY <1>1 DEF Safe, Shape, Load
<1>3. Shape' /\ Numbered(server)'
  BY <1>1, <1>2 DEF Safe, Shape
<1>4. ReadingsAreKnown(server)' /\ ChoicesAreHeard(server)'
  BY <1>1, <1>2 DEF Safe, ReadingsAreKnown, ChoicesAreHeard
<1> QED
  BY <1>1, <1>3, <1>4
     DEF Safe, EditsAreOfShown, GridHoldsShown, DraftIsGrid, NothingOverwritten

\* What the server answers is the draft, which is the grid.
LEMMA SaveHeardIsSafe ==
    ASSUME Safe, SaveHeard
    PROVE  Safe'
<1>1. /\ save \in Saves /\ save.stage = "write" /\ save.got \notin {None, Refusal} /\ save # None
      /\ page' = [page EXCEPT !.shown = save.got]
      /\ save' = [save EXCEPT !.stage = "read", !.on = save.got, !.got = None]
      /\ UNCHANGED <<server, grid, fetching, order, overwritten>>
  BY DEF Safe, Shape, SaveHeard
<1>2. /\ save.got \in Snapshot /\ KnownTo(server, save.got)
      /\ save.got.text = grid.text \cup grid.edits /\ grid.edits \subseteq save.draft
      /\ page.shown # None /\ page.latest # None
  BY <1>1 DEF Safe, Saves, ReadingsAreKnown, DraftIsGrid, EditsAreOfShown
<1>3. /\ page' \in PageStates /\ page'.shown = save.got /\ page'.latest = page.latest
      /\ page'.pending = page.pending
  BY <1>1, <1>2 DEF Safe, Shape, PageStates
<1>4. save' \in Saves /\ save'.stage = "read" /\ save'.on = save.got /\ save'.got = None
      /\ save'.draft = save.draft
  BY <1>1, <1>2 DEF Saves
<1>5. Shape' /\ Numbered(server)'
  BY <1>1, <1>3, <1>4 DEF Safe, Shape
<1>6. ReadingsAreKnown(server)' /\ ChoicesAreHeard(server)'
  BY <1>1, <1>2, <1>3, <1>4 DEF Safe, ReadingsAreKnown, ChoicesAreHeard
<1> QED
  BY <1>1, <1>2, <1>3, <1>4, <1>5, <1>6
     DEF Safe, EditsAreOfShown, GridHoldsShown, DraftIsGrid, NothingOverwritten

\* A save ends with the grid as it was saved, and what was read last on it.
LEMMA SaveEndsIsSafe ==
    ASSUME None \notin Snapshot, Safe, SaveEnds
    PROVE  Safe' /\ save.stage = "read" /\ grid.edits \subseteq save.draft
<1> DEFINE g == [text |-> save.draft, edits |-> {}]
<1>1. /\ save \in Saves /\ save # None /\ save.stage = "read" /\ save' = None
      /\ UNCHANGED <<server, fetching, order, overwritten>>
  BY DEF Safe, Shape, SaveEnds
<1>2. grid.edits \subseteq save.draft /\ page.shown # None /\ page.latest # None
  BY <1>1 DEF Safe, DraftIsGrid, EditsAreOfShown
<1>3. g \in [text : SUBSET Edits, edits : SUBSET Edits] /\ g.edits = {}
  BY <1>1 DEF Saves
<1>4. PICK p \in PageStates :
        /\ p.shown = page.shown /\ p.pending = page.pending
        /\ p.latest # None /\ KnownTo(server, p.latest)
        /\ Offered(p, g, None)
  <2>1. CASE save.got # None /\ Offered([page EXCEPT !.latest = save.got, !.behind = Older(save.got)], g, None)
    <3> DEFINE p == [page EXCEPT !.latest = save.got, !.behind = Older(save.got)]
    <3>1. save.got \in Snapshot /\ KnownTo(server, save.got)
      BY <1>1, <2>1 DEF Safe, Saves, ReadingsAreKnown
    <3>2. Older(save.got) \in BOOLEAN
      BY DEF Older
    <3>3. /\ p \in PageStates /\ p.shown = page.shown /\ p.pending = page.pending
          /\ p.latest = save.got
      BY <3>1, <3>2 DEF Safe, Shape, PageStates
    <3> QED
      BY <2>1, <3>1, <3>3
  <2>2. CASE Offered(page, g, None)
    BY <1>2, <2>2 DEF Safe, Shape, ReadingsAreKnown
  <2> QED
    BY <2>1, <2>2 DEF SaveEnds
<1>5. /\ page' \in PageStates /\ grid' \in [text : SUBSET Edits, edits : SUBSET Edits]
      /\ page'.latest = p.latest /\ page'.shown = p.latest /\ page'.pending = page.pending
      /\ grid'.text = p.latest.text /\ grid'.edits = {}
  <2>1. Offers(g, None)
    BY <1>3 DEF Offers, Clean
  <2>2. page' = [p EXCEPT !.shown = p.latest] /\ grid' = [text |-> p.latest.text, edits |-> {}]
    BY <1>4, <2>1 DEF Offered, Fresh
  <2>3. p.latest \in Snapshot /\ p.latest.text \in SUBSET Edits
    BY <1>4 DEF PageStates, Snapshot
  <2> QED
    BY <1>4, <2>2, <2>3 DEF PageStates
<1>6. Shape' /\ Numbered(server)'
  BY <1>1, <1>5 DEF Safe, Shape
<1>7. ReadingsAreKnown(server)' /\ ChoicesAreHeard(server)'
  BY <1>1, <1>4, <1>5 DEF Safe, ReadingsAreKnown, ChoicesAreHeard
<1> QED
  BY <1>1, <1>2, <1>4, <1>5, <1>6, <1>7
     DEF Safe, EditsAreOfShown, GridHoldsShown, DraftIsGrid, NothingOverwritten

\* A discard and a choice are ordered on what the page lists.
LEMMA OrderedIsSafe ==
    ASSUME Safe, Discard \/ \E what \in {"keep", "take"} : Decide(what)
    PROVE  Safe'
<1>1. UNCHANGED <<server, page, grid, fetching, save, overwritten>>
  BY DEF Discard, Decide, Ordered
<1>2. order' \in Orders /\ (order'.kind = "discard" => KnownTo(server, order'.on))
      /\ (order'.kind # "discard" => HeardOf(server, order'.on))
  <2>1. CASE Discard
    <3>1. order' = [kind |-> "discard", on |-> page.latest] /\ page.latest # None
      BY <2>1 DEF Discard, Ordered
    <3>2. page.latest \in Snapshot /\ KnownTo(server, page.latest)
      BY <3>1 DEF Safe, Shape, PageStates, ReadingsAreKnown
    <3> QED
      BY <3>1, <3>2 DEF Orders
  <2>2. ASSUME NEW what \in {"keep", "take"}, Decide(what)
        PROVE  order' \in Orders /\ order'.kind # "discard" /\ HeardOf(server, order'.on)
    <3>1. order' = [kind |-> what, on |-> page.pending] /\ page.pending # None
      BY <2>2 DEF Decide, Ordered
    <3>2. page.pending \in Choice /\ HeardOf(server, page.pending)
      BY <3>1 DEF Safe, Shape, PageStates, ChoicesAreHeard
    <3> QED
      BY <3>1, <3>2 DEF Orders
  <2> QED
    BY <2>1, <2>2
<1>3. Shape' /\ Numbered(server)'
  BY <1>1, <1>2 DEF Safe, Shape
<1>4. ReadingsAreKnown(server)' /\ ChoicesAreHeard(server)'
  BY <1>1, <1>2 DEF Safe, ReadingsAreKnown, ChoicesAreHeard
<1> QED
  BY <1>1, <1>3, <1>4
     DEF Safe, EditsAreOfShown, GridHoldsShown, DraftIsGrid, NothingOverwritten

\* An order that is carried out, or not, is over.
LEMMA OrderEndsIsSafe ==
    ASSUME Safe, OrderDone \/ OrderFails
    PROVE  Safe'
<1>1. /\ order # None /\ order' = None /\ UNCHANGED <<page, grid, save>>
      /\ fetching' \in {fetching, Load(fetching)}
      /\ ServerObeys \/ UNCHANGED <<server, overwritten>>
  BY DEF OrderDone, OrderFails
<1>2. /\ ReadingsAreKnown(server') /\ ChoicesAreHeard(server') /\ overwritten' = overwritten
      /\ server' \in Servers /\ Numbered(server')
  <2>1. CASE ServerObeys
    BY <1>1, <2>1, ObeyingIsSeen, HoldingsStayTrue DEF Advances
  <2>2. CASE UNCHANGED <<server, overwritten>>
    BY <2>2 DEF Safe, Shape
  <2> QED
    BY <1>1, <2>1, <2>2
<1>3. fetching' \in [running : {None, Sent} \cup [got : Snapshot], again : BOOLEAN]
      /\ (fetching'.running = fetching.running \/ fetching'.running = Sent)
  BY <1>1 DEF Safe, Shape, Load
<1>4. Shape' /\ Numbered(server)'
  BY <1>1, <1>2, <1>3 DEF Safe, Shape
<1>5. ReadingsAreKnown(server)' /\ ChoicesAreHeard(server)'
  BY <1>1, <1>2, <1>3 DEF ReadingsAreKnown, ChoicesAreHeard
<1> QED
  BY <1>1, <1>2, <1>4, <1>5
     DEF Safe, EditsAreOfShown, GridHoldsShown, DraftIsGrid, NothingOverwritten

\* The page asks, or is shown or hidden, or a reading is lost.
LEMMA AsksIsSafe ==
    ASSUME Safe, LoadFails \/ Hears \/ Show \/ Hide
    PROVE  Safe' /\ UNCHANGED grid
<1>1. /\ fetching' \in {fetching, Load(fetching), Done(fetching)}
      /\ UNCHANGED <<server, grid, save, order, overwritten>>
      /\ \/ page' = page \/ page' = [page EXCEPT !.failed = TRUE]
         \/ page' = [page EXCEPT !.visible = TRUE, !.failed = FALSE]
         \/ page' = [page EXCEPT !.visible = FALSE]
  BY DEF LoadFails, Hears, Show, Hide
<1>2. /\ page' \in PageStates /\ page'.latest = page.latest /\ page'.shown = page.shown
      /\ page'.pending = page.pending
  BY <1>1 DEF Safe, Shape, PageStates
<1> QED
  BY <1>1, <1>2, AskingIsSafe

-----------------------------------------------------------------------------
(* The specification. *)

LEMMA StepsAreSafe ==
    ASSUME None \notin Nat \cup Snapshot, Safe, [Next]_vars
    PROVE  Safe'
<1>1. CASE UNCHANGED vars
  BY <1>1 DEF vars, Safe, Shape, Numbered, ReadingsAreKnown, ChoicesAreHeard, EditsAreOfShown,
              GridHoldsShown, DraftIsGrid, NothingOverwritten
<1>2. CASE ServerSteps
  BY <1>2, ServerStepsAreSafe
<1>3. CASE ServerSaves \/ ServerReads
  BY <1>3, ServerSavesIsSafe, ServerReadsIsSafe
<1>4. CASE LoadHeard \/ PendingHeard
  BY <1>4, LoadHeardIsSafe, PendingHeardIsSafe
<1>5. CASE LoadFails \/ Hears \/ Show \/ Hide
  BY <1>5, AsksIsSafe
<1>6. CASE (\E e \in Mine : Type(e)) \/ Cancel
  BY <1>6, TypeIsSafe, CancelIsSafe
<1>7. CASE Save \/ SaveRefused \/ SaveHeard \/ SaveEnds
  BY <1>7, SaveIsSafe, SaveRefusedIsSafe, SaveHeardIsSafe, SaveEndsIsSafe
<1>8. CASE Discard \/ \E what \in {"keep", "take"} : Decide(what)
  BY <1>8, OrderedIsSafe
<1>9. CASE OrderDone \/ OrderFails
  BY <1>9, OrderEndsIsSafe
<1> QED
  BY <1>1, <1>2, <1>3, <1>4, <1>5, <1>6, <1>7, <1>8, <1>9 DEF Next

\* Edits that stood when a save, a discard or a choice was made are not replaced by it unseen,
\* however long a chosen version waited before it was delivered (stale_local_edits and stale_meet_context, the revision and the
\* generation that save_meet_data, discard_meet_data and decide_local_changes compare).
THEOREM EditsAreSeenBeforeTheyGo ==
    ASSUME None \notin Nat \cup Snapshot
    PROVE  Spec => []NothingOverwritten
<1>1. Init => Safe
  BY InitIsSafe
<1>2. Safe /\ [Next]_vars => Safe'
  BY StepsAreSafe
<1>3. Safe => NothingOverwritten
  BY DEF Safe
<1> QED
  BY <1>1, <1>2, <1>3, PTL DEF Spec

\* What is typed stays until it is cancelled or the server has it, whatever is read meanwhile
\* (offer and load of data-page.js).
THEOREM WhatIsTypedIsKept ==
    ASSUME None \notin Nat \cup Snapshot
    PROVE  Spec => [][UnsavedIsKept]_vars
<1>1. Init => Safe
  BY InitIsSafe
<1>2. Safe /\ [Next]_vars => Safe'
  BY StepsAreSafe
<1>3. Safe /\ [Next]_vars => [UnsavedIsKept]_vars
  <2> SUFFICES ASSUME Safe, Next, grid.edits # {}, grid'.edits # grid.edits
               PROVE  \/ grid.edits \subseteq grid'.edits
                      \/ Cancel
                      \/ save # None /\ save.stage = "read" /\ grid.edits \subseteq save.draft
    BY DEF UnsavedIsKept
  <2>1. CASE LoadHeard
    BY <2>1, LoadHeardIsSafe
  <2>2. ASSUME NEW e \in Mine, Type(e) PROVE grid.edits \subseteq grid'.edits
    BY <2>2, TypeIsSafe
  <2>3. CASE SaveEnds
    BY <2>3, SaveEndsIsSafe DEF SaveEnds
  <2> QED
    BY <2>1, <2>2, <2>3
       DEF Next, ServerSteps, OthersSave, OthersDiscard, NewDay, Publish, Deliver, ServerSaves,
           ServerReads, LoadFails, PendingHeard, Hears, Show, Hide, Save, SaveRefused, SaveHeard,
           Discard, Decide, Ordered, OrderDone, OrderFails
<1> QED
  BY <1>1, <1>2, <1>3, PTL DEF Spec
=============================================================================
