----------------------------- MODULE AdminForms -----------------------------
(***************************************************************************)
(* The forms of Drift and Inställningar (web/app.js): what the server has  *)
(* is read into them in the background, by a timer and by the stream,      *)
(* while the administrator edits and saves.  A card lies open on the page  *)
(* and has a baseline (web/settings.js); a dialog is opened, one at a      *)
(* time.  A form is described by what its handlers do differently; the     *)
(* value of a form is one bit for each request its save consists of.       *)
(***************************************************************************)
EXTENDS Integers, FiniteSets

CONSTANTS
    Pages,       \* the sets of forms looked at together
    MaxChanges,  \* what other administrators change
    MaxMeets,    \* the generations of the meet
    MaxReads,    \* reads of one form under way at a time
    MaxSaves,    \* saves under way at a time
    None

VARIABLES
    used,    \* the forms of this page
    server,  \* [meet, saved, changes]
    context, \* the generation of the meet the page shows
    forms,   \* [field, base, open, busy, meant] of each form
    reads,   \* background reads under way; the form "context" is the meet itself
    saves,   \* saves under way
    steady   \* external: from here on no request fails

vars == <<used, server, context, forms, reads, saves, steady>>

(* ------------------------- what each form does -------------------------- *)
(* posts: the requests of a save.  bound: the generation they carry, that   *)
(* of the page when they are sent, that of the dialog when it was opened,   *)
(* or none the server looks at; the dialog of the clock keeps none, and     *)
(* sends that of the page.  tail: the handler reads again before it    *)
(* gives the form back.                                                     *)

Save(posts, bound, tail) == [posts |-> posts, bound |-> bound, tail |-> tail]

SaveAutomatic   == Save(2, "context", FALSE)
SaveDisturbance == Save(1, "context", FALSE)
SaveName        == Save(1, "none", FALSE)
SaveConnection  == Save(1, "none", FALSE)
SaveAppearance  == Save(1, "context", TRUE)
SaveLive        == Save(1, "none", FALSE)
SaveSide        == Save(1, "none", TRUE)
SaveLevel       == Save(1, "none", TRUE)
SaveCalendar    == Save(1, "context", TRUE)
SaveSource      == Save(1, "dialog", TRUE)
SaveMachine     == Save(1, "dialog", TRUE)
SaveNewDay      == Save(1, "dialog", TRUE)
SaveClock       == Save(1, "context", TRUE)
SaveSwitch      == Save(1, "dialog", FALSE)

(* early: whether the form is being edited is asked before the read, not    *)
(* when its answer is put in.  again: the timer reads it over and over.     *)

Read(early, again) == [early |-> early, again |-> again]

ReadAutomatic  == Read(FALSE, TRUE)
ReadName       == Read(FALSE, TRUE)
ReadConnection == Read(FALSE, TRUE)
ReadClock      == Read(FALSE, TRUE)
ReadCalendar   == Read(FALSE, TRUE)
ReadLive       == Read(TRUE, TRUE)
ReadSide       == Read(TRUE, FALSE)
ReadLevel      == Read(TRUE, FALSE)
ReadAtOpening  == Read(FALSE, FALSE)

Card(save, read) == [save |-> save, read |-> read, dialog |-> FALSE]
Dialog(save, read) == [save |-> save, read |-> read, dialog |-> TRUE]

Names == {"automatic", "disturbance", "name", "connection", "appearance", "calendar", "live",
          "side", "level", "source", "clock", "machine", "newday", "switch"}
Form == [f \in Names |->
    CASE f = "automatic"   -> Card(SaveAutomatic, ReadAutomatic)
      [] f = "disturbance" -> Card(SaveDisturbance, ReadAutomatic)
      [] f = "name"        -> Card(SaveName, ReadName)
      [] f = "connection"  -> Card(SaveConnection, ReadConnection)
      [] f = "appearance"  -> Card(SaveAppearance, ReadClock)
      [] f = "calendar"    -> Card(SaveCalendar, ReadCalendar)
      [] f = "live"        -> Card(SaveLive, ReadLive)
      [] f = "side"        -> Card(SaveSide, ReadSide)
      [] f = "level"       -> Card(SaveLevel, ReadLevel)
      [] f = "source"      -> Dialog(SaveSource, ReadClock)
      [] f = "clock"       -> Dialog(SaveClock, ReadClock)
      [] f = "machine"     -> Dialog(SaveMachine, ReadAtOpening)
      [] f = "newday"      -> Dialog(SaveNewDay, ReadAtOpening)
      [] f = "switch"      -> Dialog(SaveSwitch, ReadAtOpening)]

Values(f) == [1..Form[f].save.posts -> {0, 1}]
Blank(f) == [i \in 1..Form[f].save.posts |-> 0]

Init ==
    /\ used \in Pages
    /\ server = [meet |-> 1, changes |-> 0, saved |-> [f \in used |-> Blank(f)]]
    /\ context = 1
    /\ forms = [f \in used |-> [field |-> Blank(f), base |-> Blank(f), open |-> FALSE,
                                busy |-> FALSE, meant |-> None]]
    /\ reads = {}
    /\ saves = {}
    /\ steady = FALSE

(* --------------------------- the administrator -------------------------- *)

Dirty(f) == forms[f].field # forms[f].base

\* editorActive: no background read may put anything into such a form.
Active(f) == forms[f].open \/ (~Form[f].dialog /\ (Dirty(f) \/ forms[f].busy))

\* A form that waits for its answer has its controls disabled (beginModalAction).
Editable(f) == ~forms[f].busy /\ (Form[f].dialog => forms[f].open)

Type(f) ==
    /\ Editable(f)
    /\ \E v \in Values(f) \ {forms[f].field} : forms' = [forms EXCEPT ![f].field = v]
    /\ UNCHANGED <<used, server, context, reads, saves, steady>>

\* openModal: one dialog at a time, with the meet of the page it is opened on; the time
\* machine and the new day are filled in at the same time.
Open(f) ==
    /\ Form[f].dialog
    /\ f # "switch"
    /\ \A g \in used : ~forms[g].open
    /\ forms' = [forms EXCEPT ![f].open = TRUE, ![f].base = forms[f].field, ![f].meant = context]
    /\ UNCHANGED <<used, server, context, reads, saves, steady>>

\* connectRuntime with a code of another meet: the server names the meet that would be left.
OpenSwitch ==
    /\ "switch" \in used
    /\ \A g \in used : ~forms[g].open
    /\ forms' = [forms EXCEPT !["switch"] = [field |-> Blank("switch"), base |-> Blank("switch"),
                                             open |-> TRUE, busy |-> FALSE, meant |-> server.meet]]
    /\ UNCHANGED <<used, server, context, reads, saves, steady>>

Undone(f) == [forms[f] EXCEPT !.field = forms[f].base, !.open = FALSE]

\* cancelModal and the cards' Avbryt: the values before the edit.
Cancel(f) ==
    /\ Editable(f)
    /\ Form[f].dialog \/ Dirty(f)
    /\ forms' = [forms EXCEPT ![f] = Undone(f)]
    /\ UNCHANGED <<used, server, context, reads, saves, steady>>

\* The generation a request is bound to: authorizedFetch puts in that of the page.
Bound(f) ==
    CASE Form[f].save.bound = "dialog" -> forms[f].meant
      [] Form[f].save.bound = "context" -> context
      [] OTHER -> None

\* seen is history: the meet that was on the page when the dialog was opened, or when the
\* button of the card was pressed.
Request(f, part) ==
    [form |-> f, part |-> part, want |-> forms[f].field, meet |-> Bound(f), got |-> None,
     seen |-> IF Form[f].dialog THEN forms[f].meant ELSE context]

\* The dialog that leaves a meet sends nothing before the name of the meet is typed.
MaySend(f) ==
    /\ Editable(f)
    /\ ~Form[f].dialog => Dirty(f)
    /\ f = "switch" => forms[f].field # forms[f].base

Press(f) ==
    /\ MaySend(f)
    /\ Cardinality(saves) < MaxSaves
    /\ saves' = saves \cup {Request(f, 1)}
    /\ forms' = [forms EXCEPT ![f].busy = TRUE]
    /\ UNCHANGED <<used, server, context, reads, steady>>

(* ------------------------------ the server ------------------------------ *)

\* What is kept for a meet is not there in the next one.
NextMeet ==
    [server EXCEPT !.meet = @ + 1,
                   !.saved = [f \in used |-> IF Form[f].save.bound = "none" THEN @[f] ELSE Blank(f)]]

\* runtime_command, _calendar_context, configure_clock_source: 409 for another meet.
Accepts(s) == s.meet \in {None, server.meet}

Stored(s) ==
    IF s.form = "switch" THEN NextMeet
    ELSE [server EXCEPT !.saved[s.form][s.part] = s.want[s.part]]

Handled(s, got) == (saves \ {s}) \cup {[s EXCEPT !.got = got]}

ServerSaves(s) ==
    /\ s.got = None
    /\ s.form = "switch" => server.meet < MaxMeets
    /\ IF Accepts(s)
       THEN /\ server' = Stored(s)
            /\ \E got \in {"yes"} \cup (IF steady THEN {} ELSE {"lost"}) : saves' = Handled(s, got)
       ELSE saves' = Handled(s, "no") /\ UNCHANGED server
    /\ UNCHANGED <<used, context, forms, reads, steady>>

\* Another administrator changes a setting, or the meet.
Elsewhere ==
    /\ server.changes < MaxChanges
    /\ \/ \E f \in used \ {"switch"} : \E v \in Values(f) \ {server.saved[f]} :
             server' = [server EXCEPT !.saved[f] = v, !.changes = @ + 1]
       \/ server.meet < MaxMeets /\ server' = [NextMeet EXCEPT !.changes = @ + 1]
    /\ UNCHANGED <<used, context, forms, reads, saves, steady>>

(* ------------------------- the answers to a save ------------------------ *)

\* endModalAction, by whichever handler comes to its end.
Ended(f) == [forms EXCEPT ![f].busy = FALSE]

\* finishModal: a card's fields are its new baseline, a dialog closes (and its close
\* event gives the controls back).
Finished(f, tail) ==
    IF Form[f].dialog
    THEN [forms EXCEPT ![f].open = FALSE, ![f].busy = FALSE, ![f].meant = None]
    ELSE [forms EXCEPT ![f].base = forms[f].field, ![f].busy = tail]

\* A stale confirmation must be read and entered again.
AskedAgain == [forms EXCEPT !["switch"].meant = server.meet, !["switch"].busy = FALSE,
                            !["switch"].field = Blank("switch")]

SaveHeard(s) ==
    LET f == s.form  save == Form[f].save
    IN /\ s.got \in {"yes", "no", "lost"}
       /\ CASE s.got = "yes" /\ s.part < save.posts ->
                 saves' = (saves \ {s}) \cup {[Request(f, s.part + 1) EXCEPT !.want = s.want, !.seen = s.seen]}
                 /\ UNCHANGED forms
            [] s.got = "yes" /\ s.part = save.posts ->
                 /\ saves' = IF save.tail THEN Handled(s, "tail") ELSE saves \ {s}
                 /\ forms' = Finished(f, save.tail)
            [] s.got = "no" /\ f = "switch" ->
                 saves' = saves \ {s} /\ forms' = AskedAgain
            [] OTHER -> saves' = saves \ {s} /\ forms' = Ended(f)
       /\ UNCHANGED <<used, server, context, reads, steady>>

\* The read at the end of the handler has been heard or has failed.
TailEnds(s) ==
    /\ s.got = "tail"
    /\ saves' = saves \ {s}
    /\ forms' = Ended(s.form)
    /\ UNCHANGED <<used, server, context, reads, steady>>

(* --------------------------- background reads --------------------------- *)

MayRead(f) ==
    /\ Form[f].read # ReadAtOpening
    /\ Form[f].read.early \/ Form[f].dialog => ~Active(f)

Under(name) == {r \in reads : r.form = name}

AskForm(f) ==
    /\ MayRead(f)
    /\ Cardinality(Under(f)) < MaxReads
    /\ reads' = reads \cup {[form |-> f, got |-> None, edited |-> Form[f].read.early /\ Active(f)]}
    /\ UNCHANGED <<used, server, context, forms, saves, steady>>

AskContext ==
    /\ Under("context") = {}
    /\ reads' = reads \cup {[form |-> "context", got |-> None, edited |-> FALSE]}
    /\ UNCHANGED <<used, server, context, forms, saves, steady>>

ServerReads(r) ==
    /\ r.got = None
    /\ reads' = (reads \ {r}) \cup
                {[r EXCEPT !.got = IF r.form = "context" THEN server.meet ELSE server.saved[r.form]]}
    /\ UNCHANGED <<used, server, context, forms, saves, steady>>

\* Mutated: whether a card waits for an answer is looked at, not whether it is edited.
MayFillEdited(f) == Form[f].read.early \/ ~(forms[f].open \/ forms[f].busy)

\* A late look at the form decides; the early ones put their answer in.
MayFill(f) == Form[f].read.early \/ ~Active(f)

Filled(f, v) == [forms EXCEPT ![f].field = v, ![f].base = v]

ReadHeard(r) ==
    /\ r.got # None
    /\ reads' = reads \ {r}
    /\ IF r.form = "context"
       THEN context' = r.got /\ UNCHANGED forms
       ELSE /\ forms' = IF MayFill(r.form) THEN Filled(r.form, r.got) ELSE forms
            /\ UNCHANGED context
    /\ UNCHANGED <<used, server, saves, steady>>

Lost ==
    /\ ~steady
    /\ \/ \E r \in reads : reads' = reads \ {r} /\ UNCHANGED saves
       \/ \E s \in saves : s.got = None /\ saves' = Handled(s, "lost") /\ UNCHANGED reads
    /\ UNCHANGED <<used, server, context, forms, steady>>

Settle == ~steady /\ steady' = TRUE /\ UNCHANGED <<used, server, context, forms, reads, saves>>

Next ==
    \/ \E f \in used : Type(f) \/ Open(f) \/ Cancel(f) \/ Press(f) \/ AskForm(f)
    \/ OpenSwitch \/ Elsewhere \/ AskContext \/ Lost \/ Settle
    \/ \E s \in saves : ServerSaves(s) \/ SaveHeard(s) \/ TailEnds(s)
    \/ \E r \in reads : ServerReads(r) \/ ReadHeard(r)

\* The timer of the page asks again for ever; a request is answered or fails.
Fairness ==
    /\ WF_vars(\E f \in used : Form[f].read.again /\ AskForm(f))
    /\ WF_vars(AskContext)
    /\ WF_vars(\E r \in reads : r.form # "context" /\ (ServerReads(r) \/ ReadHeard(r)))
    /\ WF_vars(\E r \in reads : r.form = "context" /\ (ServerReads(r) \/ ReadHeard(r)))
    /\ WF_vars(\E s \in saves : ServerSaves(s) \/ SaveHeard(s) \/ TailEnds(s))

Spec == Init /\ [][Next]_vars /\ Fairness

(* ------------------------------ properties ------------------------------ *)

\* The state is of its shape (the fields and the requests of web/app.js's forms).
TypeOK ==
    /\ used \in Pages
    /\ server.meet \in 1..MaxMeets /\ server.changes \in 0..MaxChanges /\ context \in 1..server.meet
    /\ \A f \in used :
         /\ server.saved[f] \in Values(f)
         /\ forms[f].field \in Values(f) /\ forms[f].base \in Values(f)
         /\ forms[f].meant \in {None} \cup 1..server.meet
    /\ \A s \in saves : s.form \in used /\ s.got \in {None, "yes", "no", "lost", "tail"}
    /\ \A r \in reads : r.form \in used \cup {"context"}

OnTheWay(f) == {s \in saves : s.form = f /\ s.got # "tail"}

\* A card never has two saves under way (beginModalAction, "Dubbelklick får inte skapa
\* dubbla anrop"): not after a failure, not between the two requests of the automatic
\* stations, not while the handler still reads.
OneSaveOfACard == \A f \in used : ~Form[f].dialog => Cardinality(OnTheWay(f)) <= 1

Unasked(f) ==
    f # "switch" /\ Active(f) /\ forms'[f].field # forms[f].field /\ (reads' # reads \/ saves' # saves)

\* What is being edited is changed by nobody but the administrator: no answer, however
\* late, writes into it ("Background refresh never rewrites fields in an open editor") -
\* but in the three cards that ask whether they are edited before they ask the server
\* (refreshCloudLive, refreshTrafficSide, refreshDeviationLevel), and only by an answer that
\* was asked for before the edit.
AskedBefore(f) == \E r \in reads \ reads' : r.form = f /\ Form[f].read.early /\ ~r.edited
Untouched == \A f \in used : Unasked(f) => AskedBefore(f)

\* What is done for a meet is done to the meet that was on the page when the button was
\* pressed, or when the dialog was opened, never to the one that came after it ("Bind a
\* command to the context already shown") - but the second request of a card and the dialog
\* of the clock take the meet that the page shows when they are sent.
Rebound(s) == s.part > 1 \/ (Form[s.form].dialog /\ Form[s.form].save.bound = "context")
AsSeen ==
    \A s \in saves : (server' # server /\ s.got = None /\ s \notin saves' /\ s.meet # None)
                        => s.seen = server.meet \/ Rebound(s)

\* When nothing fails any more, a form nobody edits comes to show what the server has,
\* and the page the meet that is selected.
Kept == {f \in used : Form[f].read.again}
Working == Kept # {} /\ steady /\ \A f \in Kept : ~Active(f)
UpToDate == context = server.meet /\ \A f \in Kept : forms[f].field = server.saved[f]
=============================================================================
