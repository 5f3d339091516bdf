------------------------------ MODULE MCAdmin -------------------------------
(* The administration on small sets for TLC: its forms, the waits for the server, *)
(* its views and addresses, the boxes, the sides of the stations, the trains, and *)
(* the duties with their documents, their pages and their plan.  A behaviour is   *)
(* that of one part; the parts share no state, so that nothing is lost by looking *)
(* at one at a time.                                                              *)
EXTENDS Integers, Sequences

CONSTANTS PagesOpen, \* the parts looked at
          None,
          Pages, MaxMeets, MaxReads,                         \* AdminForms
          Tries, Patience, MaxBoots, MaxAttempts, Copies,    \* AdminServer
          Paths, MaxTasks, MaxEnds,                          \* AdminAccess
          Admins, Files, Pdfs, MaxUploads,                   \* DutyDocuments
          a1, f1, f2, p1, n1,
          Boxes, Sites,                                   \* AdminBoxes
          MaxVersions,                                       \* AdminPlacement
          MaxAge, MaxTables                                  \* TrainPicker

\* The forms that are looked at together.
MCPages == {{"automatic"}, {"name"}, {"live"}, {"side"}, {"source"}, {"clock"}, {"calendar", "switch"}, {"newday"}}

\* Two PDFs: one has the pages of a duty, the other of no duty of the document.
MCSheets == [p \in Pdfs |-> IF p = p1 THEN {n1} ELSE {}]

\* One administrator from nothing or at two documents with the same PDF, and two at these.
Cut(file, age) == [file |-> file, age |-> age, pdf |-> p1, pages |-> p1, part |-> [n \in {n1} |-> p1],
                   crossed |-> {}, mixed |-> FALSE]
Alone(n) == [a \in Admins |-> IF a = a1 THEN n ELSE 0]
MCSetups ==
    {[docs |-> <<None, None>>, runs |-> Alone(3)]} \cup
    {[docs |-> <<Cut(f1, 1), Cut(f2, 2)>>, runs |-> runsOf] : runsOf \in {Alone(2), [a \in Admins |-> 1]}}

\* The pages of a PDF: with the number of a duty at its head, alone on a cover, of several
\* duties, of a duty the plan does not have, and without any.
MCTrainsOf == [d \in {1, 2} |-> IF d = 1 THEN <<101>> ELSE <<101, 102>>]
Sheet(heads, alone, trains) == [heads |-> heads, alone |-> alone, trains |-> trains]
MCKinds == {
    Sheet(<<>>, <<>>, {}), Sheet(<<>>, <<>>, {101}), Sheet(<<>>, <<>>, {101, 102}),
    Sheet(<<1>>, <<>>, {101}), Sheet(<<2, 1>>, <<>>, {}), Sheet(<<1, 2, 2>>, <<>>, {102}),
    Sheet(<<>>, <<2>>, {}), Sheet(<<9>>, <<>>, {}), Sheet(<<1, 2, 9>>, <<>>, {101})}

\* Two trains on a line of three stations, around midnight, and of two sessions.
MCSessions == [t \in {"a", "b"} |-> IF t = "a" THEN {1, 2} ELSE {2}]
MCBegins == [t \in {"a", "b"} |-> IF t = "a" THEN {1} ELSE {1, 3}]

\* Two trains at two stations, in a timetable that is replaced.
Table(publication, trains) == [publication |-> publication, trains |-> trains, stations |-> {"A", "B"}]
MCTables == {Table(1, {"t1", "t2"}), Table(2, {"t2"}), Table(2, {"t1"})}
MCCalls == [t \in {"t1", "t2"} |-> [s \in {"A", "B"} |->
    CASE t = "t1" /\ s = "A" -> 1 [] t = "t1" /\ s = "B" -> 3 [] t = "t2" /\ s = "A" -> 2 [] OTHER -> None]]

VARIABLES open, server, page, steady, reads, save,
          used, context, forms, saves,
          request, list,
          tasks,
          docs, disk, uploads, runs,
          pages,
          calls, duty,
          boxes, age, others, queue, direct, event,
          config, lost,
          snapshot, chosen, detail, loading

Forms == INSTANCE AdminForms WITH MaxChanges <- 1, MaxSaves <- 2
Server == INSTANCE AdminServer
Access == INSTANCE AdminAccess
Documents == INSTANCE DutyDocuments WITH Duties <- {n1}, Sheets <- MCSheets, Setups <- MCSetups
Sheets == INSTANCE DutySheets WITH Duties <- {1, 2}, TrainsOf <- MCTrainsOf, Kinds <- MCKinds,
                                   MaxPages <- 5, GAP <- 2
Plan == INSTANCE DutyPlan WITH
    Trains <- {"a", "b"}, Stretches <- {<<1, 2>>, <<2, 3>>}, Hidden <- {3}, Serves <- {<<"a", 2>>},
    Sessions <- MCSessions, Reader <- {1, 2}, Period <- 3, DAY <- 6, Begins <- MCBegins,
    Times <- 3..7, MaxCalls <- 3, MaxParts <- 2
BoxTable == INSTANCE AdminBoxes WITH Stations <- Sites, MaxChanges <- 1, MaxSaves <- 1
Placement == INSTANCE AdminPlacement
Picker == INSTANCE TrainPicker WITH Tables <- MCTables, Calls <- MCCalls, Minutes <- {0, 2, 3}, DAY <- 4

formVars == <<used, context, forms, saves>>
serverVars == <<request, list>>
documentVars == <<docs, disk, uploads, runs>>
planVars == <<calls, duty>>
boxVars == <<boxes, age, others, queue, direct, event>>
placementVars == <<config, lost>>
pickerVars == <<snapshot, chosen, detail, loading>>
sharedVars == <<server, page, steady, reads, save>>
vars == <<open, sharedVars, formVars, serverVars, tasks, documentVars, pages, planVars, boxVars, placementVars, pickerVars>>

NoForm == used = None /\ context = None /\ forms = None /\ saves = None
NoServer == request = None /\ list = None
NoTasks == tasks = None
NoDocument == docs = None /\ disk = None /\ uploads = None /\ runs = None
NoPages == pages = None
NoPlan == calls = None /\ duty = None
NoBox == boxes = None /\ age = None /\ others = None /\ queue = None /\ direct = None /\ event = None
NoPlacement == config = None /\ lost = None
NoPicker == snapshot = None /\ chosen = None /\ detail = None /\ loading = None

Init ==
    /\ open \in PagesOpen
    /\ \/ /\ open = "forms" /\ Forms!Init
          /\ page = None /\ save = None /\ NoServer /\ NoTasks /\ NoDocument /\ NoPages
          /\ NoPlan /\ NoBox /\ NoPlacement /\ NoPicker
       \/ /\ open = "server" /\ Server!Init
          /\ steady = None /\ reads = None /\ save = None /\ NoForm /\ NoTasks /\ NoDocument
          /\ NoPages /\ NoPlan /\ NoBox /\ NoPlacement /\ NoPicker
       \/ /\ open = "access" /\ Access!Init
          /\ steady = None /\ reads = None /\ save = None /\ NoForm /\ NoServer
          /\ NoDocument /\ NoPages /\ NoPlan /\ NoBox /\ NoPlacement /\ NoPicker
       \/ /\ open = "documents" /\ Documents!Init
          /\ server = None /\ steady = None /\ reads = None /\ save = None /\ NoForm
          /\ NoServer /\ NoTasks /\ NoPages /\ NoPlan /\ NoBox /\ NoPlacement /\ NoPicker
       \/ /\ open = "sheets" /\ Sheets!Init
          /\ server = None /\ page = None /\ steady = None /\ reads = None /\ save = None
          /\ NoForm /\ NoServer /\ NoTasks /\ NoDocument /\ NoPlan /\ NoBox /\ NoPlacement
          /\ NoPicker
       \/ /\ open = "plan" /\ Plan!Init
          /\ server = None /\ page = None /\ steady = None /\ reads = None /\ save = None
          /\ NoForm /\ NoServer /\ NoTasks /\ NoDocument /\ NoPages /\ NoBox /\ NoPlacement
          /\ NoPicker
       \/ /\ open = "boxes" /\ BoxTable!Init
          /\ server = None /\ reads = None /\ NoForm /\ NoServer /\ NoTasks /\ NoDocument
          /\ NoPages /\ NoPlan /\ NoPlacement /\ NoPicker
       \/ /\ open = "placement" /\ Placement!Init
          /\ server = None /\ NoForm /\ NoServer /\ NoTasks /\ NoDocument /\ NoPages
          /\ NoPlan /\ NoBox /\ NoPicker
       \/ /\ open = "picker" /\ Picker!Init
          /\ page = None /\ reads = None /\ save = None /\ NoForm /\ NoServer /\ NoTasks
          /\ NoDocument /\ NoPages /\ NoPlan /\ NoBox /\ NoPlacement

\* A step of one page.
InForms(A) == open = "forms" /\ A /\ UNCHANGED
    <<open, page, save, serverVars, tasks, documentVars, pages, planVars, boxVars,
      placementVars, pickerVars>>
InServer(A) == open = "server" /\ A /\ UNCHANGED
    <<open, steady, reads, save, formVars, tasks, documentVars, pages, planVars,
      boxVars, placementVars, pickerVars>>
InAccess(A) == open = "access" /\ A /\ UNCHANGED
    <<open, steady, reads, save, formVars, serverVars, documentVars, pages, planVars,
      boxVars, placementVars, pickerVars>>
InDocuments(A) == open = "documents" /\ A /\ UNCHANGED
    <<open, server, steady, reads, save, formVars, serverVars, tasks, pages, planVars,
      boxVars, placementVars, pickerVars>>
InSheets(A) == open = "sheets" /\ A /\ UNCHANGED
    <<open, sharedVars, formVars, serverVars, tasks, documentVars, planVars, boxVars,
      placementVars, pickerVars>>
InPlan(A) == open = "plan" /\ A /\ UNCHANGED
    <<open, sharedVars, formVars, serverVars, tasks, documentVars, pages, boxVars,
      placementVars, pickerVars>>
InBoxTable(A) == open = "boxes" /\ A /\ UNCHANGED
    <<open, server, reads, formVars, serverVars, tasks, documentVars, pages, planVars,
      placementVars, pickerVars>>
InPlacement(A) == open = "placement" /\ A /\ UNCHANGED
    <<open, server, formVars, serverVars, tasks, documentVars, pages, planVars,
      boxVars, pickerVars>>
InPicker(A) == open = "picker" /\ A /\ UNCHANGED
    <<open, page, reads, save, formVars, serverVars, tasks, documentVars, pages,
      planVars, boxVars, placementVars>>

Next ==
    \/ InForms(Forms!Next) \/ InServer(Server!Next) \/ InAccess(Access!Next) \/ InDocuments(Documents!Next)
    \/ InSheets(Sheets!Next) \/ InPlan(Plan!Next) \/ InBoxTable(BoxTable!Next)
    \/ InPlacement(Placement!Next) \/ InPicker(Picker!Next)

\* The fairness of each part, while it is the one that is open.
Fairness ==
    /\ WF_Forms!vars(open = "forms" /\ \E f \in used : Forms!Form[f].read.again /\ Forms!AskForm(f))
    /\ WF_Forms!vars(open = "forms" /\ Forms!AskContext)
    /\ WF_Forms!vars(open = "forms" /\ \E r \in reads : r.form # "context" /\ (Forms!ServerReads(r) \/ Forms!ReadHeard(r)))
    /\ WF_Forms!vars(open = "forms" /\ \E r \in reads : r.form = "context" /\ (Forms!ServerReads(r) \/ Forms!ReadHeard(r)))
    /\ WF_Forms!vars(open = "forms" /\ \E s \in saves : Forms!ServerSaves(s) \/ Forms!SaveHeard(s) \/ Forms!TailEnds(s))
    /\ WF_Server!vars(open = "server" /\ Server!LookForServer)
    /\ WF_Server!vars(open = "server" /\ Server!FollowUpdate)
    /\ WF_Server!vars(open = "server" /\ Server!ServerTakes)
    /\ WF_Server!vars(open = "server" /\ Server!CommandHeard)
    /\ WF_Server!vars(open = "server" /\ Server!Stops)
    /\ WF_Access!vars(open = "access" /\ Access!Answered)
    /\ WF_Access!vars(open = "access" /\ Access!Heard)
    /\ \A a \in Admins :
         /\ WF_Documents!vars(open = "documents" /\ (Documents!Serve(a) \/ Documents!Fails(a)))
         /\ WF_Documents!vars(open = "documents" /\ Documents!Heard(a))
    /\ WF_BoxTable!vars(open = "boxes" /\ BoxTable!Timer)
    /\ WF_BoxTable!vars(open = "boxes" /\ BoxTable!Hears)
    /\ WF_BoxTable!vars(open = "boxes" /\ BoxTable!ServerReads)
    /\ WF_BoxTable!vars(open = "boxes" /\ BoxTable!QueueHeard)
    /\ WF_BoxTable!vars(open = "boxes" /\ BoxTable!DirectHeard)
    /\ WF_BoxTable!vars(open = "boxes" /\ BoxTable!ServerSaves)
    /\ WF_BoxTable!vars(open = "boxes" /\ BoxTable!SaveHeard)
    /\ WF_Placement!vars(open = "placement" /\ Placement!Ask)
    /\ WF_Placement!vars(open = "placement" /\ Placement!ServerReads)
    /\ WF_Placement!vars(open = "placement" /\ Placement!ReadHeard)
    /\ WF_Picker!vars(open = "picker" /\ Picker!RenderOverview)
    /\ WF_Picker!vars(open = "picker" /\ Picker!ServerAnswers)
    /\ WF_Picker!vars(open = "picker" /\ Picker!Heard)

Spec == Init /\ [][Next]_vars /\ Fairness
-----------------------------------------------------------------------------
MCShown == {"forms", "server", "access", "documents", "sheets", "plan", "boxes", "placement", "picker"}

\* What the administration shows and does is right, on a state of its shape: one save of a
\* card at a time, the chosen backup the marked one, nothing of the administration for a
\* guest, a driver's pages cut from the document's PDF and lying on the disk, each page of a
\* PDF with its duty, the meetings of a duty told, no removal or side of a station that was
\* not so chosen, and the facts of a train its own.
AdminIsRight ==
    CASE open = "forms" -> Forms!TypeOK /\ Forms!OneSaveOfACard
      [] open = "server" -> Server!TypeOK /\ Server!ChosenIsMarked
      [] open = "access" -> Access!TypeOK /\ Access!Safe
      [] open = "documents" -> Documents!TypeOK /\ Documents!Safe
      [] open = "sheets" -> Sheets!TypeOK /\ Sheets!Safe
      [] open = "plan" -> Plan!TypeOK /\ Plan!Safe
      [] open = "boxes" -> BoxTable!TypeOK /\ BoxTable!NothingSaidUndone
      [] open = "placement" -> Placement!TypeOK /\ Placement!NobodysChoiceLost
      [] open = "picker" -> Picker!TypeOK /\ Picker!Safe

\* No late answer undoes what has been done: none writes into what is being edited, a save
\* goes to the meet that was seen, an old failure is no news, and no reading is drawn over a
\* newer one.
AdminStepsAreRight ==
    [][/\ open = "forms" => Forms!Untouched /\ Forms!AsSeen
       /\ open = "server" => Server!FailureIsNews
       /\ open = "boxes" => BoxTable!InOrder
       /\ open = "placement" => Placement!ReadsGoForward]_vars

Working ==
    CASE open = "forms" -> Forms!Working
      [] open = "boxes" -> BoxTable!Working
      [] open = "placement" -> Placement!Working
      [] OTHER -> TRUE
UpToDate ==
    CASE open = "forms" -> Forms!UpToDate
      [] open = "server" -> Server!Free
      [] open = "access" -> ~Access!Stands
      [] open = "documents" -> \A a \in Admins : Documents!Free(a)
      [] open = "boxes" -> BoxTable!UpToDate
      [] open = "placement" -> Placement!UpToDate
      [] OTHER -> TRUE

\* When answers come again what is drawn comes to be what the server has; the page never
\* waits for a server for ever, what a guest should not see goes away, and the buttons of
\* the documents come back, whatever failed.  A train that stays chosen comes to be shown
\* with what the server knows of it.
AdminComesBack ==
    /\ <>[]Working => []<>UpToDate
    /\ \A train \in Picker!Trains :
         <>[](open = "picker" /\ Picker!Stays(train)) => []<>(open = "picker" /\ Picker!ShownAsItIs(train))
=============================================================================
