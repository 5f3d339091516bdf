--------------------------- MODULE AdminPlacement --------------------------
(***************************************************************************)
(* On which side of the boxes the lines of a station lie (web/app.js): the *)
(* administrator changes what Cloud has, in a dialog that remembers the    *)
(* version of the configuration it was opened on, while the page reads the *)
(* presentation again and a number tells which reading still counts.       *)
(***************************************************************************)
EXTENDS Integers, FiniteSets

CONSTANTS
    MaxVersions, \* changes of the configuration
    None

VARIABLES
    config,  \* [version, sides]: the sides bear the number of the change that set them
    page,    \* [shown, edit]: what is drawn, and the dialog
    reads,   \* readings under way: [counts, got]; presentationRequest lets only the last count
    save,    \* None or [edit, got]
    lost,    \* sides that were replaced by one who had not seen them
    steady   \* external: from here on no reading fails or is asked for past the queue

vars == <<config, page, reads, save, lost, steady>>

\* A refusal: the configuration has changed since the dialog was opened.
Stale == [version |-> 0, sides |-> 0]

Init ==
    /\ config = [version |-> 1, sides |-> 1]
    /\ page = [shown |-> [version |-> 1, sides |-> 1], edit |-> None]
    /\ reads = {}
    /\ save = None
    /\ lost = {}
    /\ steady \in BOOLEAN

(* ------------------------------ the server ------------------------------ *)

\* Another administrator, or a publication: the version counts every change of the
\* configuration, also those that leave the sides alone (bump_config_version).
OthersChange(placement) ==
    /\ config.version < MaxVersions
    /\ config' = [version |-> config.version + 1,
                  sides |-> IF placement THEN config.version + 1 ELSE config.sides]
    /\ UNCHANGED <<page, reads, save, lost, steady>>

\* save_display_placement: only on the version the dialog was opened on.
ServerSaves ==
    /\ save # None /\ save.got = None
    /\ config.version < MaxVersions
    /\ IF save.edit.version = config.version
       THEN LET made == [version |-> config.version + 1, sides |-> config.version + 1]
            IN /\ config' = made
               /\ lost' = IF save.edit.sides = config.sides THEN lost ELSE lost \cup {config.sides}
               /\ save' = [save EXCEPT !.got = made]
       ELSE save' = [save EXCEPT !.got = Stale] /\ UNCHANGED <<config, lost>>
    /\ UNCHANGED <<page, reads, steady>>

ServerReads ==
    \E r \in reads :
        /\ r.got = None
        /\ reads' = (reads \ {r}) \cup {[r EXCEPT !.got = config]}
        /\ UNCHANGED <<config, page, save, lost, steady>>

(* ------------------------------- the page ------------------------------- *)

\* ++presentationRequest: what is under way counts no more.
Passed(set) == {[r EXCEPT !.counts = FALSE] : r \in set}

\* refreshCloudPresentation: in the queue of refreshRuntime, by the timer or an event, or by
\* a button past it.
Ask ==
    /\ reads = {} \/ ~steady
    /\ reads' = {[r EXCEPT !.counts = FALSE] : r \in reads} \cup {[counts |-> TRUE, got |-> None]}
    /\ UNCHANGED <<config, page, save, lost, steady>>

ReadHeard ==
    \E r \in reads :
        /\ r.got # None
        /\ reads' = reads \ {r}
        /\ page' = IF r.counts THEN [page EXCEPT !.shown = r.got] ELSE page
        /\ UNCHANGED <<config, save, lost, steady>>

\* A reading that throws keeps what is drawn; one that is refused leaves nothing.
ReadFails ==
    \E r \in reads :
        /\ ~steady
        /\ reads' = reads \ {r}
        /\ \/ page' = page
           \/ r.counts /\ page' = [page EXCEPT !.shown = None]
        /\ UNCHANGED <<config, save, lost, steady>>

\* What the save says it was made on: as it was when the dialog was opened.
MadeOn == page.edit

Open ==
    /\ page.edit = None /\ save = None /\ page.shown # None
    /\ page' = [page EXCEPT !.edit = page.shown]
    /\ UNCHANGED <<config, reads, save, lost, steady>>

Close ==
    /\ page.edit # None /\ save = None
    /\ page' = [page EXCEPT !.edit = None]
    /\ UNCHANGED <<config, reads, save, lost, steady>>

Press ==
    /\ page.edit # None /\ save = None
    /\ save' = [edit |-> MadeOn, got |-> None]
    /\ UNCHANGED <<config, page, reads, lost, steady>>

\* The answer is the new presentation, and no reading from before it is drawn after it.
SaveHeard ==
    /\ save # None /\ save.got # None
    /\ save' = None
    /\ IF save.got = Stale THEN UNCHANGED <<page, reads>>
       ELSE page' = [page EXCEPT !.shown = save.got, !.edit = None] /\ reads' = Passed(reads)
    /\ UNCHANGED <<config, lost, steady>>

\* The dialog stays with what was chosen.
SaveFails ==
    /\ save # None
    /\ save' = None
    /\ UNCHANGED <<config, page, reads, lost, steady>>

Next ==
    \/ \E placement \in BOOLEAN : OthersChange(placement)
    \/ ServerSaves \/ ServerReads \/ Ask \/ ReadHeard \/ ReadFails
    \/ Open \/ Close \/ Press \/ SaveHeard \/ SaveFails

\* The timer asks again and again; what is asked is answered and heard.
Fairness == WF_vars(Ask) /\ WF_vars(ServerReads) /\ WF_vars(ReadHeard)

Spec == Init /\ [][Next]_vars /\ Fairness

(* ------------------------------ properties ------------------------------ *)

\* The versions are versions of the configuration.
TypeOK ==
    /\ config \in [version : 1..MaxVersions, sides : 1..MaxVersions]
    /\ page.shown # None => page.shown.version \in 1..MaxVersions
    /\ reads \subseteq [counts : BOOLEAN, got : {None} \cup [version : 1..MaxVersions, sides : 1..MaxVersions]]

\* The sides another administrator chose are never replaced by one who had not seen them,
\* however long the dialog stood open and whatever was read under it.
NobodysChoiceLost == lost = {}

\* No reading draws an older configuration over a newer one, that of a save included.
ReadsGoForward ==
    \A r \in reads : r \notin reads' /\ page.shown # None /\ page'.shown # None /\ save' = save
        => page'.shown.version >= page.shown.version

\* Once the readings wait for one another and succeed the page comes to show what the server has.
Working == steady
UpToDate == page.shown = config
=============================================================================
