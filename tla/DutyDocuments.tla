---------------------------- MODULE DutyDocuments ---------------------------
(***************************************************************************)
(* The drivers' duties of a meet: a planning file gives the duties, a PDF  *)
(* is laid under them, the browser reads where in it each duty stands      *)
(* (web/lokforare-admin.js) and sends the pages of each duty to the server *)
(* as a small PDF of its own (driver_documents.py).  One upload is many    *)
(* requests, and none of them says which PDF it was made from; a request   *)
(* is many steps of the server, which holds its lock for the table but     *)
(* never for the disk.  Whether a document is shown to the drivers is one  *)
(* flag nothing else looks at, and left out.                               *)
(***************************************************************************)
EXTENDS Integers, Sequences, FiniteSets, SequencesExt

CONSTANTS
    Admins,      \* pages open on the duties
    Files,       \* planning files
    Pdfs,
    Duties,      \* the numbers of the duties of every planning file
    Sheets,      \* [pdf -> the duties that stand in it], what matchPages finds
    MaxUploads,  \* planning files uploaded
    Setups,      \* [docs, runs]: the documents there are at first, and how many runs each
                 \* administrator starts (None for any number), a bound
    None

VARIABLES
    docs,    \* the documents of the server: None or a record; crossed, the files of it that
             \* were written across a removal, and mixed are history
    disk,    \* the PDFs and the parts that lie on its disk
    uploads, \* planning files uploaded so far
    page,    \* the page of each administrator, and where its request stands in the server
    runs     \* how many runs each administrator may start yet

vars == <<docs, disk, uploads, page, runs>>

Ids == 1..MaxUploads
Whole(pdf) == <<pdf, "whole">>
Part(pdf, duty) == <<pdf, duty>>

Task(doc, what, at) ==
    [doc |-> doc, what |-> what, at |-> at, left |-> {}, found |-> None,
     with |-> None, queue |-> None, got |-> None, old |-> {}, doomed |-> None, stale |-> FALSE]

Blank == [seen |-> <<>>, target |-> None, task |-> None, then |-> None]
NoParts == [n \in Duties |-> None]
Document(file, age) == [file |-> file, age |-> age, pdf |-> None, pages |-> None, part |-> NoParts,
                        crossed |-> {}, mixed |-> FALSE]

Present(d) == d \in Ids /\ docs[d] # None
PartsOf(d) == IF Present(d) THEN {Part(docs[d].part[n], n) : n \in {m \in Duties : docs[d].part[m] # None}} ELSE {}
WholeOf(d) == IF Present(d) /\ docs[d].pdf # None THEN {Whole(docs[d].pdf)} ELSE {}
FilesOf(d) == WholeOf(d) \cup PartsOf(d)

Newer(d, e) == docs[d].age > docs[e].age
\* The overview of the server, the newest first.
Overview == SetToSortSeq({d \in Ids : Present(d)}, Newer)

Init ==
    \E setup \in Setups :
        /\ docs = setup.docs
        /\ disk = UNION {FilesOf(d) : d \in Ids}
        /\ uploads = Cardinality({d \in Ids : Present(d)})
        /\ page = [a \in Admins |-> [Blank EXCEPT !.seen = Overview]]
        /\ runs = setup.runs

(* ------------------------------ the server ------------------------------ *)

\* Mutated: nobody is asked.
NeverUsed(file) == FALSE

\* still_used of _forget_file and _forget_part.
StillUsed(file) == \E d \in Ids : file \in FilesOf(d)

\* What one writes to a document, others who are reading it have not seen (history).
Reads(b, d) == page[b].task # None /\ page[b].task.doc = d /\ page[b].task.at \in {"attach", "fetch", "duties", "pages", "part"}
Wrote(a, d, mine) ==
    page' = [b \in Admins |-> IF b = a THEN mine
                              ELSE IF Reads(b, d) THEN [page[b] EXCEPT !.task.stale = TRUE] ELSE page[b]]

\* A row is written about a file that is gone, or that somebody is about to take away.
Crossing(file) == file \notin disk \/ \E b \in Admins : page[b].task # None /\ page[b].task.doomed = file
Crossed(d, file) == (docs[d].crossed \ {file}) \cup {f \in {file} : Crossing(f)}

\* Answered: and the answer may be lost on its way.
Answers(a, got) == {[page[a] EXCEPT !.task.got = g, !.task.found = None] : g \in {got, "no"}}
Done(a, got) == page' \in {[page EXCEPT ![a] = p] : p \in Answers(a, got)}

Duty(task) == CHOOSE n \in task.left : TRUE
File(task) == IF task.at = "attach" THEN Whole(task.what) ELSE Part(task.what, Duty(task))

\* create: the same file again is the same document, now the newest.
Create(a, task) ==
    LET same == {d \in Ids : Present(d) /\ docs[d].file = task.what}
        d == IF same # {} THEN CHOOSE i \in same : TRUE ELSE uploads + 1
    IN /\ task.at = "create" /\ task.got = None
       /\ uploads < MaxUploads
       /\ docs' = [docs EXCEPT ![d] =
              IF same # {} THEN [@ EXCEPT !.age = uploads + 1] ELSE Document(task.what, uploads + 1)]
       /\ uploads' = uploads + 1
       /\ page' = [page EXCEPT ![a].task.got = "yes", ![a].task.doc = d]
       /\ UNCHANGED disk

\* attach_pdf and store_part begin: what is there is looked at, then the file is received.
Receives(a, task) ==
    /\ task.at \in {"attach", "part"} /\ task.got = None
    /\ Present(task.doc) /\ (task.at = "part" => docs[task.doc].pdf # None)
    /\ page' = [page EXCEPT
          ![a].task.got = "begun",
          ![a].task.found = IF task.at = "attach" THEN docs[task.doc].pdf ELSE docs[task.doc].part[Duty(task)]]
    /\ UNCHANGED <<docs, disk, uploads>>

\* _receive: the file gets its name, or is dropped since it is there already.
Received(a, task) ==
    /\ task.got = "begun"
    /\ disk' = disk \cup {File(task)}
    /\ page' = [page EXCEPT ![a].task.got = "received"]
    /\ UNCHANGED <<docs, uploads>>

\* _clear_parts: for another PDF than the one seen at the beginning, for new pages, and first
\* of all when a document is removed.
Clears(a, task) ==
    /\ \/ task.at = "attach" /\ task.got = "received" /\ task.found # task.what
       \/ /\ task.at \in {"pages", "remove"} /\ task.got = None /\ Present(task.doc)
          /\ task.at = "pages" => docs[task.doc].pdf # None
    /\ docs' = IF Present(task.doc) THEN [docs EXCEPT ![task.doc].part = NoParts] ELSE docs
    /\ page' = [page EXCEPT ![a].task.got = "cleared", ![a].task.old = PartsOf(task.doc),
                            ![a].task.found = IF task.at = "remove" THEN docs[task.doc].pdf ELSE @]
    /\ UNCHANGED <<disk, uploads>>

\* _forget_file and _forget_part: what no document points at any more is found under the
\* lock, and taken from the disk after it.
Looks(a, task) ==
    /\ task.doomed = None
    /\ LET file == CHOOSE f \in task.old : TRUE
       IN /\ task.old # {}
          /\ page' = [page EXCEPT ![a].task.old = @ \ {file},
                                  ![a].task.doomed = IF StillUsed(file) THEN None ELSE file]
    /\ UNCHANGED <<docs, disk, uploads>>
Forgets(a, task) ==
    /\ task.doomed # None
    /\ disk' = disk \ {task.doomed}
    /\ page' = [page EXCEPT ![a].task.doomed = None]
    /\ UNCHANGED <<docs, uploads>>
Settled(task) == task.old = {} /\ task.doomed = None

\* The row of attach_pdf: another PDF leaves no pages; and what is forgotten after it.
Attached(a, task) ==
    LET same == task.found = task.what
        d == task.doc
    IN /\ task.at = "attach" /\ Settled(task)
       /\ task.got = "cleared" \/ (task.got = "received" /\ same)
       /\ docs' = IF ~Present(d) THEN docs
                  ELSE [docs EXCEPT ![d].pdf = task.what,
                                    ![d].pages = IF same THEN @ ELSE None,
                                    ![d].crossed = Crossed(d, Whole(task.what)),
                                    ![d].mixed = task.stale \/ (same /\ @)]
       /\ Wrote(a, d, [page[a] EXCEPT !.task.got = "written", !.task.stale = FALSE,
                                      !.task.old = IF same \/ task.found = None THEN {} ELSE {Whole(task.found)}])
       /\ UNCHANGED <<disk, uploads>>

\* The row of store_part.
Stored(a, task) ==
    LET n == Duty(task)
        d == task.doc
    IN /\ task.at = "part" /\ task.got = "received"
       /\ docs' = IF ~Present(d) THEN docs
                  ELSE [docs EXCEPT ![d].part[n] = task.what,
                                    ![d].crossed = Crossed(d, File(task)), ![d].mixed = @ \/ task.stale]
       /\ Wrote(a, d, [page[a] EXCEPT !.task.got = "written",
                                      !.task.old = IF task.found \in {None, task.what} THEN {} ELSE {Part(task.found, n)}])
       /\ UNCHANGED <<disk, uploads>>

\* The rows of set_pages.
SetPages(a, task) ==
    /\ task.at = "pages" /\ task.got = "cleared" /\ Settled(task)
    /\ docs' = IF ~Present(task.doc) THEN docs
               ELSE [docs EXCEPT ![task.doc].pages = task.what, ![task.doc].mixed = task.stale]
    /\ \E mine \in Answers(a, IF ~Present(task.doc) THEN "no"
                              ELSE IF Sheets[task.what] = {} THEN "none" ELSE "yes") :
         Wrote(a, task.doc, mine)
    /\ UNCHANGED <<disk, uploads>>

\* The rows of remove.
RemoveDoc(a, task) ==
    /\ task.at = "remove" /\ task.got = "cleared" /\ Settled(task)
    /\ docs' = [docs EXCEPT ![task.doc] = None]
    /\ page' = [page EXCEPT ![a].task.got = "written",
                            ![a].task.old = IF task.found = None THEN {} ELSE {Whole(task.found)}]
    /\ UNCHANGED <<disk, uploads>>

\* The end of attach_pdf, store_part and remove.
Answered(a, task) ==
    /\ task.got = "written" /\ Settled(task)
    /\ Done(a, CASE task.at # "attach" -> "yes"
                 [] task.at = "attach" /\ ~Present(task.doc) -> "no"
                 [] OTHER -> IF task.found = task.what /\ docs[task.doc].pages # None THEN "same" ELSE "yes")
    /\ UNCHANGED <<docs, disk, uploads>>

\* The PDF of the server is fetched to be read again.
Fetched(a, task) ==
    /\ task.at = "fetch" /\ task.got = None /\ Present(task.doc)
    /\ page' = [page EXCEPT ![a].task.what = docs[task.doc].pdf, ![a].task.stale = FALSE,
                            ![a].task.got = IF WholeOf(task.doc) \cap disk # {} THEN "yes" ELSE "no"]
    /\ UNCHANGED <<docs, disk, uploads>>

Looked(a, task) ==
    /\ task.at \in {"duties", "review"} /\ task.got = None /\ Present(task.doc)
    /\ Done(a, "yes") /\ UNCHANGED <<docs, disk, uploads>>

Serve(a) ==
    LET task == page[a].task
    IN /\ task # None
       /\ \/ Create(a, task) \/ Receives(a, task) \/ Received(a, task) \/ Clears(a, task)
          \/ Looks(a, task) \/ Forgets(a, task)
          \/ Attached(a, task) \/ Stored(a, task) \/ SetPages(a, task) \/ RemoveDoc(a, task)
          \/ Answered(a, task) \/ Fetched(a, task) \/ Looked(a, task)
       /\ UNCHANGED runs

\* The document is gone or has no PDF, or the network is: the server drops what it was
\* receiving.
Fails(a) ==
    /\ page[a].task # None /\ page[a].task.got \in {None, "begun"}
    /\ page' = [page EXCEPT ![a].task.got = "no"]
    /\ UNCHANGED <<docs, disk, uploads, runs>>

(* ------------------------------- the page ------------------------------- *)

\* targetFor: the document chosen in the table before, otherwise the newest that is seen.
TargetFor(p) ==
    IF p.seen = <<>> THEN None
    ELSE IF p.target \in ToSet(p.seen) THEN p.target ELSE p.seen[1]

\* The PDF that was dropped with a planning file, after it: upload asks for a target now.
Continues(p) ==
    LET doc == TargetFor(p)
    IN IF p.task # None \/ doc = None THEN [p EXCEPT !.then = None]
       ELSE [p EXCEPT !.then = None,
                      !.task = [Task(doc, p.then.pdf, "attach") EXCEPT !.with = p.then.with]]

\* run comes to its end: the page is free again and asks for the overview; what was
\* dropped as well waits for that.
Ended(p, task) ==
    LET free == [p EXCEPT !.task = None]
    IN IF task.queue = None THEN free
       ELSE [free EXCEPT !.then = [pdf |-> task.queue, with |-> task.doc, got |-> None]]

Then(p, at, left) ==
    [p EXCEPT !.task.with = None, !.task.at = at, !.task.left = left, !.task.got = None, !.task.found = None,
              !.task.stale = @ /\ at # "review"]

\* The steps of each task; what fails ends it, except that a part that cannot be made or
\* sent ends the parts only, and a review that cannot be opened ends nothing.
Goes(p, task) ==
    CASE task.got = "no" /\ task.at = "part" -> Then(p, "review", {})
      [] task.got = "no" /\ task.at # "part" -> Ended(p, task)
      [] task.got # "no" /\ task.at \in {"create", "remove", "review"} ->
           IF task.at = "create" THEN Then(p, "review", {}) ELSE Ended(p, task)
      [] task.got = "same" -> Ended(p, task)
      [] task.got # "same" /\ task.at \in {"attach", "fetch"} -> Then(p, "duties", {})
      [] task.at = "duties" /\ task.got = "yes" -> Then(p, "pages", {})
      [] task.at = "pages" /\ task.got = "none" -> Then(p, "review", {})
      [] task.at = "pages" /\ task.got = "yes" -> Then(p, "part", Sheets[task.what])
      [] OTHER ->
           LET left == task.left \ {CHOOSE n \in task.left : TRUE}
           IN IF left = {} THEN Then(p, "review", {}) ELSE Then(p, "part", left)

Heard(a) ==
    /\ page[a].task # None /\ page[a].task.got \in {"yes", "no", "same", "none"}
    /\ page' = [page EXCEPT ![a] = Goes(page[a], page[a].task)]
    /\ UNCHANGED <<docs, disk, uploads, runs>>

\* Bound: each administrator starts so many runs.
MayRun(a) == runs[a] # 0
Runs(a) == runs' = IF runs[a] = None THEN runs ELSE [runs EXCEPT ![a] = @ - 1]
Start(a, task) ==
    /\ page[a].task = None /\ MayRun(a) /\ Runs(a)
    /\ page' = [page EXCEPT ![a].task = task]
    /\ UNCHANGED <<docs, disk, uploads>>

\* A planning file, a PDF, or both at once.  Bound: one PDF waits at a time.
DropPlan(a, file, pdf) ==
    /\ pdf # None => page[a].then = None
    /\ Start(a, [Task(None, file, "create") EXCEPT !.queue = pdf])

DropPdf(a, pdf) ==
    /\ TargetFor(page[a]) # None
    /\ Start(a, Task(TargetFor(page[a]), pdf, "attach"))

\* Lägg till PDF, Byt PDF: the document is remembered although no file is chosen.
PickPdf(a, d, pdf) ==
    /\ page[a].task = None /\ MayRun(a)
    /\ IF pdf = None THEN UNCHANGED runs ELSE Runs(a)
    /\ d \in ToSet(page[a].seen)
    /\ page' = [page EXCEPT ![a].target = d,
                            ![a].task = IF pdf = None THEN None ELSE Task(d, pdf, "attach")]
    /\ UNCHANGED <<docs, disk, uploads>>

\* Läs sidorna igen, Ta bort (pressed twice).
Press(a, d, at) ==
    /\ d \in ToSet(page[a].seen)
    /\ Start(a, Task(d, None, at))

\* refresh, after a run, by the timer (15 s) or because the page is looked at again.  Bound:
\* such a reading is answered at once; only the one that is awaited takes its time.
Refresh(a) ==
    /\ MayRun(a)
    /\ page' = [page EXCEPT ![a].seen = Overview]
    /\ UNCHANGED <<docs, disk, uploads, runs>>

ServeOverview(a) ==
    /\ page[a].then # None /\ page[a].then.got = None
    /\ page' = [page EXCEPT ![a].then.got = Overview]
    /\ UNCHANGED <<docs, disk, uploads, runs>>

ThenHeard(a) ==
    /\ page[a].then # None /\ page[a].then.got # None
    /\ page' = [page EXCEPT ![a] = Continues([page[a] EXCEPT !.seen = page[a].then.got])]
    /\ UNCHANGED <<docs, disk, uploads, runs>>

\* The overview that is awaited fails, or is not asked for since another section is looked
\* at: what the page has is kept.
OverviewFails(a) ==
    /\ page[a].then # None
    /\ page' = [page EXCEPT ![a] = Continues(page[a])]
    /\ UNCHANGED <<docs, disk, uploads, runs>>

Next == \E a \in Admins :
    \/ Serve(a) \/ Fails(a) \/ Heard(a)
    \/ Refresh(a) \/ ServeOverview(a) \/ ThenHeard(a) \/ OverviewFails(a)
    \/ \E file \in Files, pdf \in Pdfs \cup {None} : DropPlan(a, file, pdf)
    \/ \E pdf \in Pdfs : DropPdf(a, pdf)
    \/ \E d \in Ids, pdf \in Pdfs \cup {None} : PickPdf(a, d, pdf)
    \/ \E d \in Ids, at \in {"fetch", "remove"} : Press(a, d, at)

\* A request is answered or fails, and its answer is heard.
Fairness == \A a \in Admins : WF_vars(Serve(a) \/ Fails(a)) /\ WF_vars(Heard(a))

Spec == Init /\ [][Next]_vars /\ Fairness

(* ------------------------------ properties ------------------------------ *)

\* The state is of its shape (the tables driver_plans and driver_plan_duties).
TypeOK ==
    /\ uploads \in 0..MaxUploads
    /\ \A d \in Ids : Present(d) =>
         /\ docs[d].file \in Files /\ docs[d].pdf \in Pdfs \cup {None} /\ docs[d].pages \in Pdfs \cup {None}
         /\ \A n \in Duties : docs[d].part[n] \in Pdfs \cup {None}

\* The pages a driver gets are cut from the PDF of the document as it was last read: new
\* pages and a new PDF take the old parts away (docs/LOKFORAREN.md:118) - unless another
\* administrator wrote to the document while it was read, since no request says which PDF it
\* was made from; then until the document is read again by one alone.
OwnPages ==
    \A d \in Ids : Present(d) /\ ~docs[d].mixed => \A n \in Duties :
        docs[d].part[n] # None => docs[d].part[n] = docs[d].pdf /\ docs[d].pages = docs[d].pdf

\* Whatever documents share a PDF or a part, what a document points at lies on the disk,
\* unless its row was written while another request had the file thrown away (_receive
\* before the row, and the look of _forget_file before its unlink).
OnDisk == \A d \in Ids : Present(d) => FilesOf(d) \subseteq disk \cup docs[d].crossed

Safe == OwnPages /\ OnDisk

\* Whatever fails, the page comes to be free again.
Free(a) == page[a].task = None
=============================================================================
