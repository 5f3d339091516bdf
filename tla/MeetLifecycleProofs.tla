------------------------- MODULE MeetLifecycleProofs -------------------------
(***************************************************************************)
(* What a change of the meet leaves behind and what the commands then act  *)
(* on, for every number of changes and of commands and every set of kinds: *)
(* each write may raise, the process may die anywhere and a backup may be  *)
(* put back.                                                               *)
(*                                                                         *)
(* A change writes its cells one after the other, so nothing is known of   *)
(* the store during it but how far the change has come (Progress).  What   *)
(* holds of the store while traffic is open is therefore carried over a    *)
(* change by the copy it started from, and over a restore by the backup:   *)
(* Fits says so of the cells, Answered of the effects of the commands,     *)
(* Seen and Fitting of the data the commands were made from.               *)
(***************************************************************************)
EXTENDS MeetLifecycle, SequenceTheorems, TLAPS

AllKinds == {"tick", "jump", "reset", "day", "config", "meet", "edit"}

-----------------------------------------------------------------------------
(* What the changes write *)

\* Cell x, or the setting, is among the first n writes of a change of this kind.
Wrote(kind, n, x) == \E i \in 1 .. n : x \in Steps(kind)[i]

\* A change of the day writes the day and the setting, the active day before the
\* panels that are built from it; the plan stays as it is.
LEMMA DayShape ==
    ASSUME NEW kind \in DayChange
    PROVE  /\ Len(Steps(kind)) = 6
           /\ \A i, j \in 1 .. 6 : "weekday" \in Steps(kind)[i] /\ "panels" \in Steps(kind)[j] => i < j
           /\ \A x \in DayCells \cup {"panels", "scope"} : Wrote(kind, 6, x)
           /\ \A i \in 1 .. 6 : Steps(kind)[i] \cap {"plan", "movements", "config"} = {}
<1> DEFINE S == <<{"number", "start"}, {"weekday"}, {"statuses"}, {"placed"}, {"scope"}, {"panels"}>>
<1>1. Steps(kind) = S
  BY DEF Steps, EnterDay, ResetMeet, DayChange
<1>2. /\ Len(S) = 6 /\ S[1] = {"number", "start"} /\ S[2] = {"weekday"} /\ S[3] = {"statuses"}
      /\ S[4] = {"placed"} /\ S[5] = {"scope"} /\ S[6] = {"panels"}
  OBVIOUS
<1> HIDE DEF S
<1>3. \A i \in 1 .. 6 : i = 1 \/ i = 2 \/ i = 3 \/ i = 4 \/ i = 5 \/ i = 6
  OBVIOUS
<1>4. \A i, j \in 1 .. 6 : "weekday" \in S[i] /\ "panels" \in S[j] => i < j
  BY <1>2, <1>3
<1>5. \A i \in 1 .. 6 : S[i] \cap {"plan", "movements", "config"} = {}
  BY <1>2, <1>3
<1>6. ASSUME NEW x \in DayCells \cup {"panels", "scope"} PROVE \E i \in 1 .. 6 : x \in S[i]
  <2>1. 1 \in 1 .. 6 /\ 2 \in 1 .. 6 /\ 3 \in 1 .. 6 /\ 4 \in 1 .. 6 /\ 5 \in 1 .. 6 /\ 6 \in 1 .. 6
    OBVIOUS
  <2> QED BY <1>2, <2>1, Zenon DEF DayCells
<1> QED BY <1>1, <1>2, <1>4, <1>5, <1>6 DEF Wrote

\* Another weekday leaves the plan, the number of the day and its statuses.
LEMMA WeekdayShape ==
    /\ Len(Steps("day")) = 5
    /\ \A i, j \in 1 .. 5 : "weekday" \in Steps("day")[i] /\ "panels" \in Steps("day")[j] => i < j
    /\ \A x \in {"weekday", "start", "placed", "panels", "scope"} : Wrote("day", 5, x)
    /\ \A i \in 1 .. 5 :
         Steps("day")[i] \cap {"plan", "movements", "config", "number", "statuses"} = {}
<1> DEFINE S == <<{"weekday"}, {"start"}, {"placed"}, {"scope"}, {"panels"}>>
<1>1. Steps("day") = S
  BY DEF Steps, SetActiveDay
<1>2. /\ Len(S) = 5 /\ S[1] = {"weekday"} /\ S[2] = {"start"} /\ S[3] = {"placed"}
      /\ S[4] = {"scope"} /\ S[5] = {"panels"}
  OBVIOUS
<1> HIDE DEF S
<1>3. \A i \in 1 .. 5 : i = 1 \/ i = 2 \/ i = 3 \/ i = 4 \/ i = 5
  OBVIOUS
<1>4. \A i, j \in 1 .. 5 : "weekday" \in S[i] /\ "panels" \in S[j] => i < j
  BY <1>2, <1>3
<1>5. \A i \in 1 .. 5 : S[i] \cap {"plan", "movements", "config", "number", "statuses"} = {}
  BY <1>2, <1>3
<1>6. ASSUME NEW x \in {"weekday", "start", "placed", "panels", "scope"} PROVE \E i \in 1 .. 5 : x \in S[i]
  <2>1. 1 \in 1 .. 5 /\ 2 \in 1 .. 5 /\ 3 \in 1 .. 5 /\ 4 \in 1 .. 5 /\ 5 \in 1 .. 5
    OBVIOUS
  <2> QED BY <1>2, <2>1, Zenon
<1> QED BY <1>1, <1>2, <1>4, <1>5, <1>6 DEF Wrote

\* A change of meet writes every cell.
LEMMA MeetShape ==
    /\ Len(Steps("meet")) = 6
    /\ \A i, j \in 1 .. 6 : "weekday" \in Steps("meet")[i] /\ "panels" \in Steps("meet")[j] => i < j
    /\ \A x \in Cells \cup {"scope"} : Wrote("meet", 6, x)
<1> DEFINE S == <<{"scope"}, {"movements"}, {"statuses"}, {"placed"},
                 {"plan", "number", "start", "weekday"}, {"panels", "config"}>>
<1>1. Steps("meet") = S
  BY DEF Steps, Deliver
<1>2. /\ Len(S) = 6 /\ S[1] = {"scope"} /\ S[2] = {"movements"} /\ S[3] = {"statuses"}
      /\ S[4] = {"placed"} /\ S[5] = {"plan", "number", "start", "weekday"} /\ S[6] = {"panels", "config"}
  OBVIOUS
<1> HIDE DEF S
<1>3. \A i \in 1 .. 6 : i = 1 \/ i = 2 \/ i = 3 \/ i = 4 \/ i = 5 \/ i = 6
  OBVIOUS
<1>4. \A i, j \in 1 .. 6 : "weekday" \in S[i] /\ "panels" \in S[j] => i < j
  BY <1>2, <1>3
<1>5. ASSUME NEW x \in Cells \cup {"scope"} PROVE \E i \in 1 .. 6 : x \in S[i]
  <2>1. 1 \in 1 .. 6 /\ 2 \in 1 .. 6 /\ 3 \in 1 .. 6 /\ 4 \in 1 .. 6 /\ 5 \in 1 .. 6 /\ 6 \in 1 .. 6
    OBVIOUS
  <2> QED BY <1>2, <2>1, Zenon DEF Cells
<1> QED BY <1>1, <1>2, <1>4, <1>5 DEF Wrote

\* A configuration of the same meet and an edit write the plan and leave the day;
\* the configuration builds the panels anew.
LEMMA PlanShape ==
    ASSUME NEW kind \in {"config", "edit"}
    PROVE  /\ Len(Steps(kind)) = 3
           /\ \A x \in {"plan", "movements", "config"} : Wrote(kind, 3, x)
           /\ kind = "config" => Wrote(kind, 3, "panels")
           /\ \A i \in 1 .. 3 : Steps(kind)[i] \cap (DayCells \cup {"scope"}) = {}
           /\ kind = "edit" => \A i \in 1 .. 3 : "panels" \notin Steps(kind)[i]
<1> DEFINE S == IF kind = "config" THEN <<{"movements"}, {"plan"}, {"panels", "config"}>>
                                   ELSE <<{"plan"}, {"movements"}, {"config"}>>
<1>1. Steps(kind) = S
  BY DEF Steps, Deliver, CommitMeetData
<1>2. Len(S) = 3
  OBVIOUS
<1>3. kind = "config" => S[1] = {"movements"} /\ S[2] = {"plan"} /\ S[3] = {"panels", "config"}
  OBVIOUS
<1>4. kind = "edit" => S[1] = {"plan"} /\ S[2] = {"movements"} /\ S[3] = {"config"}
  OBVIOUS
<1> HIDE DEF S
<1>5. \A i \in 1 .. 3 : i = 1 \/ i = 2 \/ i = 3
  OBVIOUS
<1>6. 1 \in 1 .. 3 /\ 2 \in 1 .. 3 /\ 3 \in 1 .. 3
  OBVIOUS
<1>7. \A i \in 1 .. 3 : S[i] \cap (DayCells \cup {"scope"}) = {}
  BY <1>3, <1>4, <1>5 DEF DayCells
<1>8. kind = "edit" => \A i \in 1 .. 3 : "panels" \notin S[i]
  BY <1>4, <1>5
<1>9. \A x \in {"plan", "movements", "config"} : \E i \in 1 .. 3 : x \in S[i]
  BY <1>3, <1>4, <1>6, Zenon
<1>10. kind = "config" => \E i \in 1 .. 3 : "panels" \in S[i]
  BY <1>3, <1>6, Zenon
<1> QED BY <1>1, <1>2, <1>7, <1>8, <1>9, <1>10 DEF Wrote

\* What the argument needs of every kind.
LEMMA StepsShape ==
    ASSUME NEW kind \in AllKinds
    PROVE  /\ Len(Steps(kind)) \in 0 .. 6
           /\ \A i, j \in 1 .. Len(Steps(kind)) :
                "weekday" \in Steps(kind)[i] /\ "panels" \in Steps(kind)[j] => i < j
           /\ kind \notin {"config", "edit"} => Wrote(kind, Len(Steps(kind)), "scope")
           /\ kind \in {"config", "edit"} =>
                \A i \in 1 .. Len(Steps(kind)) : Steps(kind)[i] \cap (DayCells \cup {"scope"}) = {}
           /\ kind # "edit" => Wrote(kind, Len(Steps(kind)), "panels")
           /\ \A x \in Renewed(kind) : Wrote(kind, Len(Steps(kind)), x)
<1>1. CASE kind \in DayChange
  <2>1. Renewed(kind) = DayCells \cup {"panels"}
    BY <1>1 DEF Renewed, DayChange
  <2>2. kind \notin {"config", "edit"}
    BY <1>1 DEF DayChange
  <2>3. Len(Steps(kind)) = 6 /\ 6 \in 0 .. 6
    BY <1>1, DayShape
  <2>4. \A x \in DayCells \cup {"panels", "scope"} : Wrote(kind, 6, x)
    BY <1>1, DayShape
  <2>5. \A i, j \in 1 .. 6 : "weekday" \in Steps(kind)[i] /\ "panels" \in Steps(kind)[j] => i < j
    BY <1>1, DayShape
  <2> QED BY <2>1, <2>2, <2>3, <2>4, <2>5
<1>2. CASE kind = "day"
  <2>1. Renewed(kind) = {"weekday", "start", "placed", "panels"}
    BY <1>2 DEF Renewed, DayChange
  <2>2. Len(Steps(kind)) = 5 /\ 5 \in 0 .. 6 /\ kind \notin {"config", "edit"}
    BY <1>2, WeekdayShape
  <2>3. \A x \in {"weekday", "start", "placed", "panels", "scope"} : Wrote(kind, 5, x)
    BY <1>2, WeekdayShape
  <2>4. \A i, j \in 1 .. 5 : "weekday" \in Steps(kind)[i] /\ "panels" \in Steps(kind)[j] => i < j
    BY <1>2, WeekdayShape
  <2> QED BY <2>1, <2>2, <2>3, <2>4
<1>3. CASE kind = "meet"
  <2>1. Renewed(kind) = Cells /\ "panels" \in Cells
    BY <1>3 DEF Renewed, DayChange, Cells
  <2>2. Len(Steps(kind)) = 6 /\ 6 \in 0 .. 6 /\ kind \notin {"config", "edit"}
    BY <1>3, MeetShape
  <2>3. \A x \in Cells \cup {"scope"} : Wrote(kind, 6, x)
    BY <1>3, MeetShape
  <2>4. \A i, j \in 1 .. 6 : "weekday" \in Steps(kind)[i] /\ "panels" \in Steps(kind)[j] => i < j
    BY <1>3, MeetShape
  <2> QED BY <2>1, <2>2, <2>3, <2>4
<1>4. CASE kind \in {"config", "edit"}
  <2>1. Renewed(kind) = {"plan", "movements", "config"}
    BY <1>4 DEF Renewed, DayChange
  <2>2. Len(Steps(kind)) = 3 /\ 3 \in 0 .. 6
    BY <1>4, PlanShape
  <2>3. \A i, j \in 1 .. 3 : ~("weekday" \in Steps(kind)[i])
    BY <1>4, PlanShape DEF DayCells
  <2>4. \A x \in {"plan", "movements", "config"} : Wrote(kind, 3, x)
    BY <1>4, PlanShape
  <2>5. kind # "edit" => Wrote(kind, 3, "panels")
    BY <1>4, PlanShape
  <2>6. \A i \in 1 .. 3 : Steps(kind)[i] \cap (DayCells \cup {"scope"}) = {}
    BY <1>4, PlanShape
  <2> QED BY <1>4, <2>1, <2>2, <2>3, <2>4, <2>5, <2>6
<1> QED BY <1>1, <1>2, <1>3, <1>4 DEF AllKinds, DayChange

-----------------------------------------------------------------------------
(* Types, counters, and how far a change has come *)

Changes == [kind : Kinds, done : 0 .. 6, old : Stores]
Images == [selected : Selections, store : Stores, scoped : BOOLEAN, torn : BOOLEAN,
           receipts : SUBSET Commands, sent : SUBSET Commands, applied : [Commands -> Seq(Stores)]]
Messages == [scope : Selections \cup {None}, seen : Stores]

LEMMA ChangeFields ==
    ASSUME NEW r \in Changes
    PROVE  r.kind \in Kinds /\ r.kind \in AllKinds /\ r.done \in 0 .. 6 /\ r.old \in Stores
<1>1. r.kind \in Kinds /\ r.done \in 0 .. 6 /\ r.old \in Stores
  BY DEF Changes
<1> QED BY <1>1, LifecycleAssumption DEF AllKinds

LEMMA ImageFields ==
    ASSUME NEW r \in Images
    PROVE  /\ r.selected.generation \in Worlds /\ r.selected.publication \in Worlds
           /\ r.store \in Stores /\ r.scoped \in BOOLEAN /\ r.torn \in BOOLEAN
           /\ r.receipts \subseteq Commands /\ r.sent \subseteq Commands
           /\ r.applied \in [Commands -> Seq(Stores)]
<1>1. r.selected \in Selections
  BY DEF Images
<1>2. r.selected.generation \in Worlds /\ r.selected.publication \in Worlds
  BY <1>1 DEF Selections
<1>3. r.store \in Stores /\ r.scoped \in BOOLEAN /\ r.torn \in BOOLEAN
  BY DEF Images
<1>4. r.receipts \subseteq Commands /\ r.sent \subseteq Commands /\ r.applied \in [Commands -> Seq(Stores)]
  BY DEF Images
<1> QED BY <1>2, <1>3, <1>4

\* A store built anew is a store, and differs in what the engine holds at most.
LEMMA RebuiltStore ==
    ASSUME NEW s \in Stores
    PROVE  /\ Rebuilt(s) \in Stores
           /\ \A x \in Durable : Rebuilt(s)[x] = s[x]
           /\ Rebuilt(s)["panels"] = s["weekday"] /\ Rebuilt(s)["config"] = s["plan"]
BY DEF Rebuilt, Stores, Cells, Durable

\* What the generation counts has begun, and a change that is not completed has
\* not been counted.
Counted ==
    /\ generation <= made
    /\ marker # None => generation < made
    /\ backup # None => backup.selected.generation <= made

\* The marker stays as long as the change does; what its steps so far were to
\* write is written, and every other cell is as the change found it.
InChange ==
    change # None =>
        /\ marker = made /\ marker # None
        /\ change.done <= Len(Steps(change.kind))
        /\ \A x \in Cells : IF Wrote(change.kind, change.done, x)
                              THEN x # "panels" => store[x] = marker
                              ELSE store[x] = change.old[x]
        /\ Wrote(change.kind, change.done, "panels") => store["panels"] = store["weekday"]
        /\ Wrote(change.kind, change.done, "scope") => scoped

Progress == TypeOK /\ Counted /\ InChange

\* The typing of the state, in the names of this module.
LEMMA Typed ==
    ASSUME Progress
    PROVE  /\ generation \in Nat /\ made \in Nat /\ made <= MaxWorld
           /\ store \in Stores /\ scoped \in BOOLEAN /\ torn \in BOOLEAN
           /\ receipts \subseteq Commands /\ stranded \subseteq Commands
           /\ change # None => change \in Changes /\ change.kind \in AllKinds /\ change.kind \in Kinds
                               /\ change.done \in Nat /\ change.done \in 0 .. 6 /\ change.old \in Stores
                               /\ marker # None /\ marker \in Worlds
           /\ backup # None => backup \in Images
           /\ DOMAIN sent = Commands /\ DOMAIN applied = Commands
           /\ \A c \in Commands : sent[c] # None => sent[c] \in Messages /\ sent[c].seen \in Stores
           /\ \A c \in Commands : sent[c] # None /\ sent[c].scope # None => sent[c].scope.generation \in Nat
           /\ applied \in [Commands -> Seq(Stores)]
<1> USE DEF Progress
<1>1. generation \in Nat /\ made \in Nat /\ made <= MaxWorld
  BY LifecycleAssumption DEF TypeOK, Worlds
<1>2. /\ store \in Stores /\ scoped \in BOOLEAN /\ torn \in BOOLEAN
      /\ receipts \subseteq Commands /\ stranded \subseteq Commands
  BY DEF TypeOK
<1>3. ASSUME change # None
      PROVE  /\ change \in Changes /\ change.kind \in AllKinds /\ change.kind \in Kinds
             /\ change.done \in Nat /\ change.done \in 0 .. 6 /\ change.old \in Stores
             /\ marker # None /\ marker \in Worlds
  <2>1. change \in Changes
    BY <1>3 DEF TypeOK, Changes
  <2>2. marker # None /\ marker \in Worlds
    BY <1>3 DEF InChange, TypeOK
  <2> QED BY <2>1, <2>2, ChangeFields
<1>4. backup # None => backup \in Images
  BY DEF TypeOK, Images
<1>5. DOMAIN sent = Commands /\ DOMAIN applied = Commands /\ applied \in [Commands -> Seq(Stores)]
  BY DEF TypeOK
<1>6. ASSUME NEW c \in Commands, sent[c] # None
      PROVE  sent[c] \in Messages /\ sent[c].seen \in Stores /\ sent[c].scope \in Selections \cup {None}
  <2>1. sent[c] \in Messages
    BY <1>6 DEF TypeOK, Messages
  <2> QED BY <2>1 DEF Messages
<1>7. ASSUME NEW c \in Commands, sent[c] # None, sent[c].scope # None
      PROVE  sent[c].scope.generation \in Nat
  <2>1. sent[c].scope \in Selections
    BY <1>6, <1>7
  <2> QED BY <2>1 DEF Selections, Worlds
<1> QED BY <1>1, <1>2, <1>3, <1>4, <1>5, <1>6, <1>7

LEMMA ProgressInit == Init => Progress
<1> SUFFICES ASSUME Init PROVE Progress
  OBVIOUS
<1> USE LifecycleAssumption DEF Init
<1>1. 0 \in Worlds
  BY DEF Worlds
<1>2. store \in Stores
  BY <1>1 DEF Stores
<1>3. sent \in [Commands -> {None} \cup [scope : Selections \cup {None}, seen : Stores]]
  OBVIOUS
<1>4. <<>> \in Seq(Stores)
  OBVIOUS
<1>5. applied \in [Commands -> Seq(Stores)]
  BY <1>4
<1>6. TypeOK
  BY <1>1, <1>2, <1>3, <1>5, Zenon DEF TypeOK
<1> QED BY <1>6 DEF Progress, Counted, InChange

LEMMA BeginProgress ==
    ASSUME Progress, NEW kind \in Kinds, Begin(kind)
    PROVE  Progress'
<1> USE LifecycleAssumption
<1>1. /\ made \in Nat /\ made < MaxWorld /\ marker = None /\ store \in Stores /\ kind \in AllKinds
  BY Typed DEF Begin, AllKinds
<1>2. made' = made + 1 /\ marker' = made + 1 /\ made' \in Worlds /\ marker' # None
  BY <1>1 DEF Begin, Worlds
<1>3. change' = [kind |-> kind, done |-> 0, old |-> store] /\ change' \in Changes
  BY <1>1 DEF Begin, Changes
<1>4. backup' = backup \/ (backup' = Image /\ Image \in Images)
  <2>1. Selected \in Selections
    BY DEF Progress, TypeOK, Selected, Selections
  <2>2. Image \in Images
    BY <2>1, Typed DEF Image, Images
  <2> QED BY <2>2 DEF Begin
<1>5. TypeOK'
  BY <1>2, <1>3, <1>4 DEF Progress, TypeOK, Begin, Changes, Images
<1>6. Counted'
  <2>1. generation <= made /\ generation \in Nat
    BY Typed DEF Progress, Counted
  <2>2. ASSUME backup' # None PROVE backup'.selected.generation <= made'
    <3>1. CASE backup' = backup
      <4>1. backup.selected.generation \in Nat /\ backup.selected.generation <= made
        BY <2>2, <3>1, Typed, ImageFields DEF Progress, Counted, Worlds
      <4> QED BY <1>1, <1>2, <3>1, <4>1
    <3>2. CASE backup' = Image
      BY <1>1, <1>2, <2>1, <3>2 DEF Image, Selected
    <3> QED BY <1>4, <3>1, <3>2
  <2> QED BY <1>1, <1>2, <2>1, <2>2 DEF Counted, Begin
<1>7. InChange'
  <2>1. change'.done = 0 /\ change'.kind = kind /\ change'.old = store /\ Len(Steps(kind)) \in Nat
    BY <1>1, <1>3, StepsShape
  <2>2. \A x : ~Wrote(kind, 0, x)
    BY DEF Wrote
  <2>3. store' = store
    BY DEF Begin
  <2> QED BY <1>1, <1>2, <2>1, <2>2, <2>3 DEF InChange, Wrote
<1> QED BY <1>5, <1>6, <1>7 DEF Progress

\* A write carries the change one step on.
LEMMA WriteProgress == ASSUME Progress, Write PROVE Progress'
<1> USE LifecycleAssumption
<1> DEFINE kind == change.kind
           done == change.done
           what == Steps(kind)[done + 1]
<1>1. /\ change \in Changes /\ kind \in AllKinds /\ change # None /\ done \in Nat
      /\ done < Len(Steps(kind)) /\ Len(Steps(kind)) \in 0 .. 6
      /\ marker \in Worlds /\ marker = made /\ marker # None /\ store \in Stores
  <2>1. change # None /\ done < Len(Steps(kind))
    BY DEF Write
  <2>2. marker = made
    BY <2>1 DEF Progress, InChange
  <2> QED BY <2>1, <2>2, Typed, StepsShape
<1>2. /\ change' \in Changes
      /\ change'.done = done + 1 /\ change'.kind = kind /\ change'.old = change.old
  <2>1. change' = [change EXCEPT !.done = done + 1]
    BY DEF Write
  <2> DEFINE next == done + 1
             steps == Len(Steps(kind))
  <2>2. done \in Nat /\ steps \in 0 .. 6 /\ done < steps
    BY <1>1
  <2> HIDE DEF next, done, steps
  <2>3. change' = [change EXCEPT !.done = next] /\ next \in 0 .. 6
    BY <2>1, <2>2 DEF next, done
  <2>4. change' \in Changes /\ change'.done = next /\ change'.kind = change.kind /\ change'.old = change.old
    BY <1>1, <2>3 DEF Changes
  <2> QED BY <2>4 DEF next, done, kind
<1>3. /\ store' = [x \in Cells |-> IF x \notin what THEN store[x]
                                   ELSE IF x = "panels" THEN store["weekday"] ELSE marker]
      /\ scoped' = (scoped \/ "scope" \in what)
      /\ receipts' = {} \/ receipts' = receipts
      /\ UNCHANGED <<generation, publication, marker, backup, made, torn, sent, stranded, applied>>
  BY DEF Write
<1>4. store' \in Stores
  BY <1>1, <1>3 DEF Stores, Cells
<1>5. TypeOK'
  BY <1>2, <1>3, <1>4 DEF Progress, TypeOK, Changes
<1>6. Counted'
  BY <1>3 DEF Progress, Counted
<1>7. \A x : Wrote(kind, done + 1, x) <=> Wrote(kind, done, x) \/ x \in what
  <2>1. 1 .. done + 1 = (1 .. done) \cup {done + 1}
    BY <1>1
  <2> QED BY <2>1 DEF Wrote
<1>8. ~("weekday" \in what /\ ("panels" \in what \/ Wrote(kind, done, "panels")))
  <2>1. \A i, j \in 1 .. Len(Steps(kind)) :
           "weekday" \in Steps(kind)[i] /\ "panels" \in Steps(kind)[j] => i < j
    BY <1>1, StepsShape
  <2>2. done + 1 \in 1 .. Len(Steps(kind)) /\ 1 .. done \subseteq 1 .. Len(Steps(kind))
    BY <1>1
  <2>3. ASSUME NEW j \in 1 .. done + 1, "weekday" \in what, "panels" \in Steps(kind)[j] PROVE FALSE
    <3>1. j \in 1 .. Len(Steps(kind))
      BY <1>1
    <3>2. done + 1 < j
      BY <2>1, <2>2, <2>3, <3>1
    <3> QED BY <1>1, <3>2
  <2>4. done + 1 \in 1 .. done + 1 /\ 1 .. done \subseteq 1 .. done + 1
    BY <1>1
  <2> QED BY <2>3, <2>4 DEF Wrote
<1>9. /\ \A x \in Cells : IF Wrote(kind, done, x) THEN x # "panels" => store[x] = marker
                                                 ELSE store[x] = change.old[x]
      /\ Wrote(kind, done, "panels") => store["panels"] = store["weekday"]
      /\ Wrote(kind, done, "scope") => scoped
  BY <1>1 DEF Progress, InChange
<1> HIDE DEF kind, done, what
<1>10. ASSUME NEW x \in Cells
       PROVE  IF Wrote(kind, done + 1, x) THEN x # "panels" => store'[x] = marker
                                          ELSE store'[x] = change.old[x]
  BY <1>3, <1>7, <1>9, Zenon
<1>11. Wrote(kind, done + 1, "panels") => store'["panels"] = store'["weekday"]
  <2>1. "panels" \in Cells /\ "weekday" \in Cells /\ "panels" # "weekday"
    BY DEF Cells
  <2> QED BY <1>3, <1>7, <1>8, <1>9, <2>1, Zenon
<1>12. Wrote(kind, done + 1, "scope") => scoped'
  BY <1>3, <1>7, <1>9, Zenon
<1>13. InChange'
  <2>1. done + 1 <= Len(Steps(kind))
    BY <1>1 DEF done, kind
  <2>2. change'.kind = kind /\ change'.done = done + 1 /\ change'.old = change.old
    BY <1>2
  <2>3. marker' = marker /\ made' = made /\ marker = made /\ marker # None
    BY <1>1, <1>3
  <2> QED BY <1>10, <1>11, <1>12, <2>1, <2>2, <2>3 DEF InChange, Wrote
<1> QED BY <1>5, <1>6, <1>13 DEF Progress

\* Completing a change, with all its steps done or in a finally.
LEMMA CompletedProgress ==
    ASSUME Progress, change # None, Completed, torn' \in BOOLEAN, stranded' \subseteq Commands,
           UNCHANGED <<store, scoped, receipts, backup, made, sent, applied>>
    PROVE  Progress'
<1>1. /\ marker = made /\ marker # None /\ marker \in Worlds
      /\ generation < made /\ made \in Nat /\ made <= MaxWorld /\ generation \in Nat
  BY Typed DEF Progress, InChange, Counted
<1>2. /\ generation' = generation + 1 /\ marker' = None /\ change' = None
      /\ publication' \in {publication, marker}
  BY DEF Completed
<1>3. generation' \in Worlds
  BY <1>1, <1>2, LifecycleAssumption DEF Worlds
<1>4. TypeOK'
  BY <1>1, <1>2, <1>3 DEF Progress, TypeOK
<1>5. Counted'
  BY <1>1, <1>2 DEF Progress, Counted
<1> QED BY <1>2, <1>4, <1>5 DEF Progress, InChange

LEMMA FailProgress == ASSUME Progress, Fail PROVE Progress'
<1>1. CASE CutShort
  <2>1. torn' \in BOOLEAN /\ stranded' \subseteq Commands
    BY <1>1, Typed DEF CutShort
  <2> QED BY <1>1, <2>1, CompletedProgress DEF Fail, CutShort
<1>2. CASE Reverted \/ LeftMarked
  <2>1. /\ change # None /\ UNCHANGED <<scoped, receipts, backup, made, sent, applied>>
        /\ change' = None /\ marker' \in {None, marker} /\ store' \in {store, change.old}
        /\ UNCHANGED <<generation, publication, torn, stranded>>
    BY <1>2 DEF Fail, Reverted, LeftMarked
  <2>2. store' \in Stores
    BY <2>1, Typed
  <2>3. TypeOK'
    BY <2>1, <2>2 DEF Progress, TypeOK
  <2> QED BY <2>1, <2>3 DEF Progress, Counted, InChange
<1> QED BY <1>1, <1>2 DEF Fail

LEMMA CrashProgress == ASSUME Progress, Crash PROVE Progress'
<1>1. store' \in Stores
  BY Typed, RebuiltStore DEF Crash
<1>2. TypeOK'
  BY <1>1 DEF Progress, TypeOK, Crash
<1> QED BY <1>2 DEF Progress, Counted, InChange, Crash

LEMMA RestoreProgress == ASSUME Progress, Restore PROVE Progress'
<1>1. backup # None /\ backup \in Images
  BY Typed DEF Restore
<1>2. generation' \in Worlds /\ publication' \in Worlds
  BY <1>1, ImageFields DEF Restore
<1>3. store' \in Stores
  BY <1>1, ImageFields, RebuiltStore DEF Restore
<1>4. /\ scoped' \in BOOLEAN /\ torn' \in BOOLEAN /\ receipts' \subseteq Commands
      /\ applied' \in [Commands -> Seq(Stores)] /\ stranded' \subseteq Commands
  BY <1>1, ImageFields, Typed DEF Restore
<1>5. TypeOK'
  BY <1>2, <1>3, <1>4 DEF Progress, TypeOK, Restore
<1>6. Counted'
  BY <1>1 DEF Progress, Counted, Restore
<1>7. InChange'
  BY DEF InChange, Restore
<1> QED BY <1>5, <1>6, <1>7 DEF Progress

LEMMA ComposeProgress == ASSUME Progress, NEW c \in Commands, Compose(c) PROVE Progress'
<1> PICK scope \in {Selected, None} : sent' = [sent EXCEPT ![c] = [scope |-> scope, seen |-> store]]
  BY DEF Compose
<1>1. [scope |-> scope, seen |-> store] \in Messages
  BY DEF Progress, TypeOK, Messages, Selected, Selections
<1>2. sent' \in [Commands -> {None} \cup Messages]
  BY <1>1 DEF Progress, TypeOK, Messages
<1>3. TypeOK'
  BY <1>2 DEF Progress, TypeOK, Compose, Messages
<1> QED BY <1>3 DEF Progress, Counted, InChange, Compose

LEMMA AcceptProgress == ASSUME Progress, NEW c \in Commands, Accept(c) PROVE Progress'
<1>1. store \in Stores /\ applied[c] \in Seq(Stores)
  BY Typed
<1>2. Append(applied[c], store) \in Seq(Stores)
  BY <1>1
<1>3. applied' \in [Commands -> Seq(Stores)]
  BY <1>2 DEF Accept, Progress, TypeOK
<1>4. TypeOK'
  BY <1>3 DEF Progress, TypeOK, Accept
<1> QED BY <1>4 DEF Progress, Counted, InChange, Accept

LEMMA ProgressStep == Progress /\ [Next]_vars => Progress'
<1> SUFFICES ASSUME Progress, [Next]_vars PROVE Progress'
  OBVIOUS
<1>1. ASSUME NEW kind \in Kinds, Begin(kind) PROVE Progress'
  BY <1>1, BeginProgress
<1>2. CASE Write
  BY <1>2, WriteProgress
<1>3. CASE Complete
  <2>1. torn' \in BOOLEAN /\ stranded' \subseteq Commands
    BY <1>3, Typed DEF Complete
  <2> QED BY <1>3, <2>1, CompletedProgress DEF Complete
<1>4. CASE Fail
  BY <1>4, FailProgress
<1>5. CASE Crash
  BY <1>5, CrashProgress
<1>6. CASE Restore
  BY <1>6, RestoreProgress
<1>7. ASSUME NEW c \in Commands, Compose(c) \/ Accept(c) PROVE Progress'
  BY <1>7, ComposeProgress, AcceptProgress
<1>8. CASE UNCHANGED vars
  BY <1>8 DEF vars, Progress, TypeOK, Counted, InChange
<1> QED BY <1>1, <1>2, <1>3, <1>4, <1>5, <1>6, <1>7, <1>8 DEF Next

\* A change under way has its marker, its copy and exactly the cells it has written so far.
THEOREM ChangesProgress == Spec => []Progress
<1> QED BY ProgressInit, ProgressStep, PTL DEF Spec

\* The types hold in every behaviour: the generation never passes the number of
\* changes begun, so the bound on the changes bounds it too.
THEOREM TypeCorrect == Spec => []TypeOK
<1>1. Progress => TypeOK
  BY DEF Progress
<1> QED BY <1>1, ChangesProgress, PTL

-----------------------------------------------------------------------------
(* A completed change mends *)

\* The only step that lets go of the marker with everything written is the completion.
LEMMA OnlyCompletion ==
    ASSUME Progress, [Next]_vars,
           change # None, change.done = Len(Steps(change.kind)), marker' = None
    PROVE  Complete
<1>1. marker # None /\ change.done \in Nat
  BY Typed
<1>2. ASSUME NEW kind \in Kinds, Begin(kind) PROVE FALSE
  BY <1>2 DEF Begin
<1>3. CASE Write \/ Fail
  <2>1. change.done < change.done
    BY <1>3 DEF Write, Fail
  <2> QED BY <1>1, <2>1
<1>4. CASE Crash
  BY <1>1, <1>4 DEF Crash
<1>5. CASE Restore
  BY <1>5 DEF Restore
<1>6. ASSUME NEW c \in Commands, Compose(c) \/ Accept(c) PROVE FALSE
  BY <1>6 DEF Compose, Accept
<1>7. CASE UNCHANGED vars
  BY <1>1, <1>7 DEF vars
<1> QED BY <1>2, <1>3, <1>4, <1>5, <1>6, <1>7 DEF Next

\* What a finished change has written, by its kind.
LEMMA Finished ==
    ASSUME Progress, change # None, change.done = Len(Steps(change.kind))
    PROVE  /\ \A x \in Renewed(change.kind) : x # "panels" => store[x] = marker
           /\ change.kind # "edit" => store["panels"] = store["weekday"]
           /\ change.kind \notin {"config", "edit"} => scoped
<1>1. change.kind \in AllKinds
  BY Typed
<1>2. /\ \A x \in Renewed(change.kind) : Wrote(change.kind, change.done, x)
      /\ change.kind # "edit" => Wrote(change.kind, change.done, "panels")
      /\ change.kind \notin {"config", "edit"} => Wrote(change.kind, change.done, "scope")
  BY <1>1, StepsShape
<1>3. Renewed(change.kind) \subseteq Cells
  BY <1>1 DEF Renewed, Cells, DayCells, DayChange, AllKinds
<1> QED BY <1>2, <1>3 DEF Progress, InChange

\* A change that runs to its end leaves behind none of the data that are its to set
\* up, over every exception, crash and restored backup before it: each write takes
\* effect in its turn (_enter_day, reset_meet, set_active_day, _deliver,
\* _commit_meet_data).
THEOREM CompletedChangesMend == Spec => ACompletedChangeMends
<1>1. ASSUME Progress, [Next]_vars,
             change # None, change.done = Len(Steps(change.kind)), marker' = None
      PROVE  /\ \A x \in Renewed(change.kind) : store'[x] = marker
             /\ change.kind # "edit" => store'["panels"] = store'["weekday"]
  <2>1. store' = store
    BY <1>1, OnlyCompletion DEF Complete
  <2>2. /\ \A x \in Renewed(change.kind) : x # "panels" => store[x] = marker
        /\ change.kind # "edit" => store["panels"] = store["weekday"]
    BY <1>1, Finished
  <2>3. "panels" \in Renewed(change.kind) => "weekday" \in Renewed(change.kind) /\ change.kind # "edit"
    <3>1. change.kind \in AllKinds
      BY <1>1, Typed
    <3> QED BY <3>1 DEF AllKinds, Renewed, DayCells, Cells, DayChange
  <2>4. "weekday" # "panels"
    OBVIOUS
  <2>5. \A x \in Renewed(change.kind) : store[x] = marker
    BY <2>2, <2>3, <2>4
  <2> QED BY <2>1, <2>2, <2>5
<1>2. Progress /\ [Next]_vars =>
         [change # None /\ change.done = Len(Steps(change.kind)) /\ marker' = None =>
            /\ \A x \in Renewed(change.kind) : store'[x] = marker
            /\ change.kind # "edit" => store'["panels"] = store'["weekday"]]_vars
  BY <1>1
<1> QED BY <1>2, ChangesProgress, PTL DEF Spec, ACompletedChangeMends

-----------------------------------------------------------------------------
(* The cells that belong together *)

\* What is promised of a store while traffic is open on it.
Fit(s, cut) == PlanAgrees(s) /\ (cut \/ (WeekdayAgrees(s) /\ DayAgrees(s)))

\* The store fits while traffic is open, and so does what a change and a restore
\* go back to.
Fits ==
    /\ marker = None => Fit(store, torn)
    /\ change # None => Fit(change.old, torn)
    /\ backup # None => Fit(backup.store, backup.torn)

LEMMA RebuiltFits == ASSUME NEW s \in Stores, NEW cut \in BOOLEAN, Fit(s, cut) PROVE Fit(Rebuilt(s), cut)
<1>1. /\ \A x \in {"plan", "movements", "weekday", "start", "placed", "number", "statuses"} :
             Rebuilt(s)[x] = s[x]
      /\ Rebuilt(s)["panels"] = s["weekday"] /\ Rebuilt(s)["config"] = s["plan"]
  BY RebuiltStore DEF Durable, Cells
<1> QED BY <1>1 DEF Fit, PlanAgrees, WeekdayAgrees, DayAgrees

\* A cell that none of the kind's writes names is as the change found it.
LEMMA Untouched ==
    ASSUME Progress, change # None, NEW x \in Cells,
           \A i \in 1 .. Len(Steps(change.kind)) : x \notin Steps(change.kind)[i]
    PROVE  store[x] = change.old[x]
<1>1. change.done \in Nat /\ change.done <= Len(Steps(change.kind)) /\ Len(Steps(change.kind)) \in 0 .. 6
  BY Typed, StepsShape DEF Progress, InChange
<1>2. 1 .. change.done \subseteq 1 .. Len(Steps(change.kind))
  BY <1>1
<1> QED BY <1>2 DEF Progress, InChange, Wrote

\* Before its first write a change has changed nothing.
LEMMA NothingWritten ==
    ASSUME Progress, change # None, change.done = 0
    PROVE  \A x \in Cells : store[x] = change.old[x]
<1>1. \A x : ~Wrote(change.kind, 0, x)
  BY DEF Wrote
<1> QED BY <1>1 DEF Progress, InChange

\* What a change of each kind does not touch.
LEMMA LeftAlone ==
    ASSUME Progress, change # None
    PROVE  /\ change.kind \in DayChange \cup {"day"} =>
                \A x \in {"plan", "movements", "config"} : store[x] = change.old[x]
           /\ change.kind = "day" => \A x \in {"number", "statuses"} : store[x] = change.old[x]
           /\ change.kind \in {"config", "edit"} => \A x \in DayCells : store[x] = change.old[x]
           /\ change.kind = "edit" => store["panels"] = change.old["panels"]
<1>1. {"plan", "movements", "config", "number", "statuses", "panels"} \cup DayCells \subseteq Cells
  BY DEF Cells, DayCells
<1>2. ASSUME change.kind \in DayChange, NEW x \in {"plan", "movements", "config"}
      PROVE  store[x] = change.old[x]
  <2>1. \A i \in 1 .. Len(Steps(change.kind)) : x \notin Steps(change.kind)[i]
    BY <1>2, DayShape
  <2> QED BY <1>1, <2>1, Untouched
<1>3. ASSUME change.kind = "day", NEW x \in {"plan", "movements", "config", "number", "statuses"}
      PROVE  store[x] = change.old[x]
  <2>1. \A i \in 1 .. Len(Steps(change.kind)) : x \notin Steps(change.kind)[i]
    BY <1>3, WeekdayShape
  <2> QED BY <1>1, <2>1, Untouched
<1>4. ASSUME change.kind \in {"config", "edit"}, NEW x \in DayCells PROVE store[x] = change.old[x]
  <2>1. \A i \in 1 .. Len(Steps(change.kind)) : x \notin Steps(change.kind)[i]
    BY <1>4, PlanShape
  <2> QED BY <1>1, <2>1, Untouched
<1>5. ASSUME change.kind = "edit" PROVE store["panels"] = change.old["panels"]
  <2>1. \A i \in 1 .. Len(Steps(change.kind)) : "panels" \notin Steps(change.kind)[i]
    BY <1>5, PlanShape
  <2> QED BY <1>1, <2>1, Untouched
<1> QED BY <1>2, <1>3, <1>4, <1>5

LEMMA CompleteFits == ASSUME Progress, Fits, Complete PROVE Fits'
<1>1. /\ change # None /\ change.done = Len(Steps(change.kind)) /\ change.kind \in AllKinds
      /\ marker' = None /\ change' = None /\ UNCHANGED <<store, backup>>
      /\ torn' = (torn /\ change.kind \notin DayChange \cup {"meet"})
      /\ Fit(change.old, torn) /\ torn \in BOOLEAN
  BY Typed DEF Complete, Completed, Fits
<1>2. /\ \A x \in Renewed(change.kind) : x # "panels" => store[x] = marker
      /\ change.kind # "edit" => store["panels"] = store["weekday"]
  BY <1>1, Finished
<1>3. CASE change.kind \in DayChange
  <2>1. Renewed(change.kind) = DayCells \cup {"panels"}
    BY <1>3 DEF Renewed, DayChange
  <2>2. \A x \in {"plan", "movements", "config"} : store[x] = change.old[x]
    BY <1>1, <1>3, LeftAlone
  <2>3. \A x \in DayCells : store[x] = marker
    BY <1>2, <2>1 DEF DayCells
  <2>4. store["panels"] = store["weekday"]
    BY <1>2, <1>3 DEF DayChange
  <2> QED BY <1>1, <2>2, <2>3, <2>4 DEF Fits, Fit, PlanAgrees, WeekdayAgrees, DayAgrees, DayCells
<1>4. CASE change.kind = "day"
  <2>1. Renewed(change.kind) = {"weekday", "start", "placed", "panels"}
    BY <1>4 DEF Renewed, DayChange
  <2>2. \A x \in {"plan", "movements", "config", "number", "statuses"} : store[x] = change.old[x]
    BY <1>1, <1>4, LeftAlone
  <2> QED BY <1>1, <1>2, <1>4, <2>1, <2>2 DEF Fits, Fit, PlanAgrees, WeekdayAgrees, DayAgrees, DayChange
<1>5. CASE change.kind = "meet"
  <2>1. Renewed(change.kind) = Cells
    BY <1>5 DEF Renewed, DayChange
  <2>2. \A x \in Cells : x # "panels" => store[x] = marker
    BY <1>2, <2>1
  <2> QED BY <1>1, <1>2, <1>5, <2>2 DEF Fits, Fit, PlanAgrees, WeekdayAgrees, DayAgrees, Cells
<1>6. CASE change.kind \in {"config", "edit"}
  <2>1. Renewed(change.kind) = {"plan", "movements", "config"}
    BY <1>6 DEF Renewed, DayChange
  <2>2. \A x \in DayCells : store[x] = change.old[x]
    BY <1>1, <1>6, LeftAlone
  <2>3. PlanAgrees(store)
    BY <1>2, <2>1 DEF PlanAgrees
  <2>4. change.kind = "edit" => store["panels"] = change.old["panels"]
    BY <1>1, LeftAlone
  <2>5. torn' = torn
    BY <1>1, <1>6 DEF DayChange
  <2>6. torn \/ (WeekdayAgrees(store) /\ DayAgrees(store))
    BY <1>1, <1>2, <1>6, <2>2, <2>4 DEF Fit, WeekdayAgrees, DayAgrees, DayCells
  <2> QED BY <1>1, <2>3, <2>5, <2>6 DEF Fits, Fit
<1> QED BY <1>1, <1>3, <1>4, <1>5, <1>6 DEF AllKinds, DayChange

LEMMA FailFits == ASSUME Progress, Fits, Fail PROVE Fits'
<1>1. change # None /\ change' = None /\ backup' = backup /\ Fit(change.old, torn)
  BY DEF Fail, CutShort, Completed, Reverted, LeftMarked, Fits
<1>2. marker # None /\ change.done \in Nat /\ torn \in BOOLEAN
  BY <1>1, Typed
<1>3. CASE CutShort
  <2>1. store' = store /\ torn' = (torn \/ change.done > 0) /\ change.kind \in DayChange
    BY <1>3 DEF CutShort
  <2>2. CASE change.done = 0
    <3>1. \A x \in Cells : store[x] = change.old[x]
      BY <1>1, <2>2, NothingWritten
    <3>2. Fit(store, torn)
      BY <1>1, <3>1 DEF Fit, PlanAgrees, WeekdayAgrees, DayAgrees, Cells
    <3>3. torn' = torn
      BY <1>2, <2>1, <2>2
    <3> QED BY <1>1, <2>1, <3>2, <3>3 DEF Fits
  <2>3. CASE change.done # 0
    <3>1. \A x \in {"plan", "movements", "config"} : store[x] = change.old[x]
      BY <1>1, <2>1, LeftAlone
    <3>2. PlanAgrees(store)
      BY <1>1, <3>1 DEF Fit, PlanAgrees
    <3>3. torn' = TRUE
      <4>1. change.done > 0
        BY <1>2, <2>3
      <4> QED BY <2>1, <4>1, Zenon
    <3> QED BY <1>1, <2>1, <3>2, <3>3 DEF Fits, Fit
  <2> QED BY <2>2, <2>3
<1>4. CASE Reverted
  BY <1>1, <1>4 DEF Reverted, Fits
<1>5. CASE LeftMarked
  BY <1>1, <1>2, <1>5 DEF LeftMarked, Fits
<1> QED BY <1>3, <1>4, <1>5 DEF Fail

LEMMA FitsInit == Init => Fits
<1> SUFFICES ASSUME Init PROVE Fits
  OBVIOUS
<1>1. \A x \in Cells : store[x] = 0
  BY DEF Init
<1> QED BY <1>1 DEF Init, Fits, Fit, PlanAgrees, WeekdayAgrees, DayAgrees, Cells

LEMMA FitsStep == ASSUME Progress, Fits, [Next]_vars PROVE Fits'
<1>0. change # None => marker # None
  BY Typed
<1>1. ASSUME NEW kind \in Kinds, Begin(kind) PROVE Fits'
  <2>1. /\ marker = None /\ marker' # None /\ change'.old = store /\ torn' = torn /\ store' = store
        /\ backup' = backup \/ (backup'.store = store /\ backup'.torn = torn)
    <3>1. marker' # None
      BY <1>1, Typed, LifecycleAssumption DEF Begin
    <3> QED BY <1>1, <3>1 DEF Begin, Image
  <2> QED BY <2>1 DEF Fits
<1>2. CASE Write
  <2>1. /\ change # None /\ change'.old = change.old /\ UNCHANGED <<marker, backup, torn>>
    BY <1>2, Typed DEF Write, Changes
  <2> QED BY <1>0, <2>1 DEF Fits
<1>3. CASE Crash
  <2>1. change' = None /\ store' = Rebuilt(store) /\ UNCHANGED <<marker, backup, torn>>
    BY <1>3 DEF Crash
  <2>2. marker = None => Fit(Rebuilt(store), torn)
    BY RebuiltFits, Typed DEF Fits
  <2> QED BY <2>1, <2>2 DEF Fits
<1>4. CASE Restore
  <2>1. /\ backup # None /\ store' = Rebuilt(backup.store) /\ torn' = backup.torn
        /\ change = None /\ change' = change /\ backup' = None
    BY <1>4 DEF Restore
  <2>2. Fit(backup.store, backup.torn) /\ backup.store \in Stores /\ backup.torn \in BOOLEAN
    BY <2>1, Typed, ImageFields DEF Fits
  <2>3. Fit(Rebuilt(backup.store), backup.torn)
    BY <2>2, RebuiltFits
  <2> QED BY <2>1, <2>3 DEF Fits
<1>5. ASSUME NEW c \in Commands, Compose(c) \/ Accept(c) PROVE Fits'
  BY <1>5 DEF Compose, Accept, Fits
<1>6. CASE UNCHANGED vars
  BY <1>6 DEF vars, Fits
<1> QED BY <1>1, <1>2, <1>3, <1>4, <1>5, <1>6, CompleteFits, FailFits DEF Next

THEOREM ChangesFit == Spec => [](Progress /\ Fits)
<1> QED BY ProgressInit, ProgressStep, FitsInit, FitsStep, PTL DEF Spec

\* Traffic never runs on the plan of one change and the configuration of another; on
\* the weekday or the number of one and the trains of another only after a change of
\* the day was cut short by an exception (_enter_day and reset_meet complete it in a
\* finally), until a whole one is completed.
THEOREM OnlyCutDaysAreMixed == Spec => []OnlyACutDayIsMixed
<1>1. Fits => OnlyACutDayIsMixed
  BY DEF Fits, Fit, OnlyACutDayIsMixed
<1> QED BY <1>1, ChangesFit, PTL

-----------------------------------------------------------------------------
(* One effect per command *)

\* AppliedOnce promises something of this command.
Guarded(c) == sent[c].scope # None \/ c \notin stranded

\* A command that has had its effect was made, had one, and with a selection of
\* this number or an earlier one.
Single(effects, number) ==
    \A c \in Commands : effects[c] # <<>> =>
        /\ sent[c] # None
        /\ Guarded(c) => Len(effects[c]) <= 1
        /\ sent[c].scope # None => sent[c].scope.generation <= number

\* Such a command is answered from memory or kept out, by its selection or by the setting.
KeptOut(effects, memory, number, setting) ==
    \A c \in Commands : effects[c] # <<>> /\ Guarded(c) =>
        \/ c \in memory
        \/ IF sent[c].scope # None THEN sent[c].scope.generation < number ELSE setting

\* While a change is under way the memory may be gone already: then the change goes
\* on to a new generation, and to the setting.
Answered ==
    /\ Single(applied, generation)
    /\ marker = None => KeptOut(applied, receipts, generation, scoped)
    /\ change # None => \/ Wrote(change.kind, change.done, "statuses")
                        \/ KeptOut(applied, receipts, generation, scoped)
    /\ backup # None =>
         /\ Single(backup.applied, backup.selected.generation)
         /\ KeptOut(backup.applied, backup.receipts, backup.selected.generation, backup.scoped)

\* Nobody's command is unmade, and stranded commands stay stranded.
LEMMA CommandsRemain ==
    ASSUME Progress, [Next]_vars
    PROVE  /\ \A c \in Commands : sent[c] # None => sent'[c] = sent[c]
           /\ stranded \subseteq stranded'
<1>1. ASSUME NEW d \in Commands, Compose(d)
      PROVE  /\ \A c \in Commands : sent[c] # None => sent'[c] = sent[c]
             /\ stranded \subseteq stranded'
  <2>1. sent[d] = None /\ stranded' = stranded /\ \E m : sent' = [sent EXCEPT ![d] = m]
    BY <1>1 DEF Compose
  <2> QED BY <2>1, Typed
<1>2. ASSUME \/ \E kind \in Kinds : Begin(kind)
             \/ Write \/ Complete \/ Fail \/ Crash \/ Restore \/ UNCHANGED vars
             \/ \E c \in Commands : Accept(c)
      PROVE  sent' = sent /\ stranded \subseteq stranded'
  BY <1>2 DEF Begin, Write, Complete, Fail, CutShort, Reverted, LeftMarked, Crash, Restore, Accept, vars
<1> QED BY <1>1, <1>2 DEF Next

\* What is known of effects that stay as they are survives every step.
LEMMA SingleRemains ==
    ASSUME Progress, [Next]_vars, Single(applied, generation), applied' = applied,
           generation' \in Nat, generation <= generation'
    PROVE  Single(applied, generation)'
<1> SUFFICES ASSUME NEW c \in Commands, applied[c] # <<>>
             PROVE  /\ sent'[c] # None
                    /\ Guarded(c)' => Len(applied[c]) <= 1
                    /\ sent'[c].scope # None => sent'[c].scope.generation <= generation'
  BY Zenon DEF Single
<1>1. /\ sent[c] # None
      /\ Guarded(c) => Len(applied[c]) <= 1
      /\ sent[c].scope # None => sent[c].scope.generation <= generation
  BY DEF Single
<1>2. sent'[c] = sent[c] /\ (c \in stranded => c \in stranded')
  BY <1>1, CommandsRemain
<1>3. Guarded(c)' => Guarded(c)
  BY <1>2 DEF Guarded
<1>4. generation \in Nat /\ (sent[c].scope # None => sent[c].scope.generation \in Nat)
  BY <1>1, Typed
<1> QED BY <1>1, <1>2, <1>3, <1>4

LEMMA KeptOutRemains ==
    ASSUME Progress, [Next]_vars, Single(applied, generation), KeptOut(applied, receipts, generation, scoped),
           UNCHANGED <<applied, generation, receipts>>, scoped => scoped'
    PROVE  KeptOut(applied, receipts, generation, scoped)'
<1> SUFFICES ASSUME NEW c \in Commands, applied[c] # <<>>, Guarded(c)'
             PROVE  \/ c \in receipts
                    \/ IF sent'[c].scope # None THEN sent'[c].scope.generation < generation ELSE scoped'
  BY Zenon DEF KeptOut
<1>1. sent[c] # None
  BY DEF Single
<1>2. sent'[c] = sent[c] /\ (c \in stranded => c \in stranded')
  BY <1>1, CommandsRemain
<1>3. Guarded(c)
  BY <1>2 DEF Guarded
<1> QED BY <1>2, <1>3, Zenon DEF KeptOut

\* The same of the copy.
LEMMA BackupRemains ==
    ASSUME Progress, [Next]_vars, backup # None,
           Single(backup.applied, backup.selected.generation),
           KeptOut(backup.applied, backup.receipts, backup.selected.generation, backup.scoped)
    PROVE  /\ \A c \in Commands : backup.applied[c] # <<>> =>
                /\ sent'[c] # None
                /\ Guarded(c)' => Len(backup.applied[c]) <= 1
                /\ sent'[c].scope # None => sent'[c].scope.generation <= backup.selected.generation
           /\ \A c \in Commands : backup.applied[c] # <<>> /\ Guarded(c)' =>
                \/ c \in backup.receipts
                \/ IF sent'[c].scope # None THEN sent'[c].scope.generation < backup.selected.generation
                                            ELSE backup.scoped
<1> SUFFICES ASSUME NEW c \in Commands, backup.applied[c] # <<>>
             PROVE  /\ sent'[c] # None
                    /\ Guarded(c)' => Len(backup.applied[c]) <= 1
                    /\ sent'[c].scope # None => sent'[c].scope.generation <= backup.selected.generation
                    /\ Guarded(c)' =>
                         \/ c \in backup.receipts
                         \/ IF sent'[c].scope # None
                              THEN sent'[c].scope.generation < backup.selected.generation
                              ELSE backup.scoped
  BY Zenon
<1>1. /\ sent[c] # None
      /\ Guarded(c) => Len(backup.applied[c]) <= 1
      /\ sent[c].scope # None => sent[c].scope.generation <= backup.selected.generation
  BY DEF Single
<1>2. sent'[c] = sent[c] /\ (c \in stranded => c \in stranded')
  BY <1>1, CommandsRemain
<1>3. Guarded(c)' => Guarded(c)
  BY <1>2 DEF Guarded
<1>4. Guarded(c) =>
         \/ c \in backup.receipts
         \/ IF sent[c].scope # None THEN sent[c].scope.generation < backup.selected.generation ELSE backup.scoped
  BY Zenon DEF KeptOut
<1> QED BY <1>1, <1>2, <1>3, <1>4, Zenon

\* A step that leaves the copy leaves what is known of it.
LEMMA CopyAnswered ==
    ASSUME Progress, Answered, [Next]_vars, backup' = backup
    PROVE  (backup # None =>
             /\ Single(backup.applied, backup.selected.generation)
             /\ KeptOut(backup.applied, backup.receipts, backup.selected.generation, backup.scoped))'
BY BackupRemains, Zenon DEF Answered, Single, KeptOut

LEMMA BeginAnswered ==
    ASSUME Progress, Answered, [Next]_vars, NEW kind \in Kinds, Begin(kind) PROVE Answered'
<1>1. /\ marker = None /\ UNCHANGED <<applied, generation, receipts, scoped, sent, stranded>>
      /\ backup' = backup \/ backup' = Image
  BY DEF Begin
<1>2. Single(applied, generation)' /\ KeptOut(applied, receipts, generation, scoped)'
  BY <1>1, SingleRemains, KeptOutRemains, Typed DEF Answered
<1>3. (backup # None =>
         /\ Single(backup.applied, backup.selected.generation)
         /\ KeptOut(backup.applied, backup.receipts, backup.selected.generation, backup.scoped))'
  <2>1. CASE backup' = backup
    BY <2>1, CopyAnswered
  <2>2. CASE backup' = Image
    <3>1. /\ backup'.applied = applied' /\ backup'.receipts = receipts' /\ backup'.scoped = scoped'
          /\ backup'.selected.generation = generation'
      BY <1>1, <2>2 DEF Image, Selected
    <3> QED BY <1>2, <3>1, Zenon DEF Single, KeptOut
  <2> QED BY <1>1, <2>1, <2>2
<1> QED BY <1>2, <1>3 DEF Answered

LEMMA WriteAnswered == ASSUME Progress, Answered, [Next]_vars, Write PROVE Answered'
<1>1. /\ change # None /\ change.done \in Nat /\ marker # None /\ UNCHANGED <<applied, generation, marker, backup>>
      /\ change'.kind = change.kind /\ change'.done = change.done + 1
      /\ scoped => scoped'
  <2>1. change # None /\ change \in Changes /\ marker # None /\ change.done \in Nat
    BY Typed DEF Write
  <2> QED BY <2>1 DEF Write, Changes
<1>2. Single(applied, generation)'
  BY <1>1, SingleRemains, Typed DEF Answered
<1>3. change.done + 1 \in 1 .. change.done + 1 /\ 1 .. change.done \subseteq 1 .. change.done + 1
  BY <1>1
<1>4. CASE "statuses" \in Steps(change.kind)[change.done + 1] \/ Wrote(change.kind, change.done, "statuses")
  <2>1. Wrote(change.kind, change.done + 1, "statuses")
    BY <1>3, <1>4 DEF Wrote
  <2> QED BY <1>1, <1>2, <2>1, CopyAnswered DEF Answered, Wrote
<1>5. CASE ~("statuses" \in Steps(change.kind)[change.done + 1] \/ Wrote(change.kind, change.done, "statuses"))
  <2>1. receipts' = receipts
    BY <1>5 DEF Write
  <2>2. KeptOut(applied, receipts, generation, scoped)
    BY <1>1, <1>5 DEF Answered
  <2>3. KeptOut(applied, receipts, generation, scoped)'
    BY <1>1, <2>1, <2>2, KeptOutRemains DEF Answered
  <2> QED BY <1>1, <1>2, <2>3, CopyAnswered DEF Answered
<1> QED BY <1>4, <1>5

\* A new generation keeps the commands with a selection out; the others are kept out
\* or answered if nothing of their change was written, or the setting was.
LEMMA CompletedAnswered ==
    ASSUME Progress, Answered, [Next]_vars, change # None, Completed,
           UNCHANGED <<applied, receipts, scoped, backup, sent>>,
           \/ scoped
           \/ ~Wrote(change.kind, change.done, "statuses")
           \/ \A c \in Commands : sent[c] # None /\ sent[c].scope = None => c \in stranded'
    PROVE  Answered'
<1>1. marker' = None /\ change' = None /\ generation' = generation + 1 /\ generation \in Nat
  BY Typed DEF Completed
<1>2. generation' \in Nat /\ generation <= generation'
  BY <1>1
<1>3. Single(applied, generation)'
  BY <1>2, SingleRemains DEF Answered
<1>4. KeptOut(applied, receipts, generation, scoped)'
  <2> SUFFICES ASSUME NEW c \in Commands, applied[c] # <<>>, Guarded(c)'
               PROVE  \/ c \in receipts
                      \/ IF sent[c].scope # None THEN sent[c].scope.generation < generation' ELSE scoped
    BY Zenon DEF KeptOut
  <2>1. sent[c] # None /\ (sent[c].scope # None => sent[c].scope.generation <= generation)
    BY DEF Answered, Single
  <2>2. CASE sent[c].scope # None
    <3>1. sent[c].scope.generation \in Nat
      BY <2>1, <2>2, Typed
    <3> QED BY <1>1, <2>1, <2>2, <3>1
  <2>3. CASE sent[c].scope = None
    <3>1. c \notin stranded'
      BY <2>3 DEF Guarded
    <3>2. Guarded(c)
      BY <2>3, <3>1, CommandsRemain DEF Guarded
    <3>3. CASE scoped
      BY <2>3, <3>3
    <3>4. CASE ~Wrote(change.kind, change.done, "statuses")
      <4>1. KeptOut(applied, receipts, generation, scoped)
        BY <3>4 DEF Answered
      <4> QED BY <2>3, <3>2, <4>1, Zenon DEF KeptOut
    <3> QED BY <2>1, <2>3, <3>1, <3>3, <3>4
  <2> QED BY <2>2, <2>3
<1> QED BY <1>1, <1>3, <1>4, CopyAnswered DEF Answered

LEMMA CompleteAnswered == ASSUME Progress, Answered, [Next]_vars, Complete PROVE Answered'
<1>1. change # None /\ Completed /\ UNCHANGED <<applied, receipts, scoped, backup, sent>>
      /\ change.done = Len(Steps(change.kind)) /\ change.kind \in AllKinds
  BY Typed DEF Complete
<1>2. scoped \/ ~Wrote(change.kind, change.done, "statuses")
  <2>1. CASE change.kind \in {"config", "edit"}
    <3>1. \A i \in 1 .. change.done : Steps(change.kind)[i] \cap DayCells = {}
      BY <1>1, <2>1, StepsShape
    <3> QED BY <3>1 DEF Wrote, DayCells
  <2>2. CASE change.kind \notin {"config", "edit"}
    BY <1>1, <2>2, Finished
  <2> QED BY <2>1, <2>2
<1> QED BY <1>1, <1>2, CompletedAnswered

LEMMA FailAnswered == ASSUME Progress, Answered, [Next]_vars, Fail PROVE Answered'
<1>1. /\ change # None /\ marker # None /\ change.done \in Nat /\ change' = None
      /\ UNCHANGED <<scoped, receipts, backup, sent, applied>>
  BY Typed DEF Fail, CutShort, Completed, Reverted, LeftMarked
<1>2. CASE CutShort
  <2>1. CASE change.done = 0
    <3>1. ~Wrote(change.kind, change.done, "statuses")
      BY <2>1 DEF Wrote
    <3> QED BY <1>1, <1>2, <3>1, CompletedAnswered DEF CutShort
  <2>2. CASE change.done # 0
    <3>1. change.done > 0
      BY <1>1, <2>2
    <3>2. scoped \/ \A c \in Commands : sent[c] # None /\ sent[c].scope = None => c \in stranded'
      BY <1>2, <3>1, Zenon DEF CutShort
    <3> QED BY <1>1, <1>2, <3>2, CompletedAnswered DEF CutShort
  <2> QED BY <2>1, <2>2
<1>3. CASE Reverted
  <2>1. change.kind = "edit" /\ generation' = generation
    BY <1>3 DEF Reverted
  <2>2. ~Wrote(change.kind, change.done, "statuses")
    <3>1. change.done <= Len(Steps(change.kind)) /\ Len(Steps(change.kind)) \in 0 .. 6
      BY <1>1, Typed, StepsShape DEF Progress, InChange
    <3>2. 1 .. change.done \subseteq 1 .. Len(Steps(change.kind))
      BY <1>1, <3>1
    <3>3. \A i \in 1 .. Len(Steps(change.kind)) : Steps(change.kind)[i] \cap DayCells = {}
      BY <1>1, <2>1, Typed, StepsShape
    <3> QED BY <3>2, <3>3 DEF Wrote, DayCells
  <2>3. KeptOut(applied, receipts, generation, scoped)
    BY <1>1, <2>2 DEF Answered
  <2>4. Single(applied, generation)' /\ KeptOut(applied, receipts, generation, scoped)'
    BY <1>1, <2>1, <2>3, SingleRemains, KeptOutRemains, Typed DEF Answered
  <2> QED BY <1>1, <2>4, CopyAnswered DEF Answered
<1>4. CASE LeftMarked
  <2>1. generation' = generation /\ marker' = marker
    BY <1>4 DEF LeftMarked
  <2>2. Single(applied, generation)'
    BY <1>1, <2>1, SingleRemains, Typed DEF Answered
  <2> QED BY <1>1, <2>1, <2>2, CopyAnswered DEF Answered
<1> QED BY <1>2, <1>3, <1>4 DEF Fail

LEMMA AcceptAnswered ==
    ASSUME Progress, Answered, [Next]_vars, NEW d \in Commands, Accept(d) PROVE Answered'
<1>1. /\ sent[d] # None /\ change = None /\ marker = None /\ InScope(d) /\ d \notin receipts
      /\ applied' = [applied EXCEPT ![d] = Append(applied[d], store)]
      /\ receipts' = receipts \cup {d}
      /\ UNCHANGED <<generation, marker, change, scoped, backup, sent, stranded>>
  BY DEF Accept, Remembered
<1>2. /\ DOMAIN applied = Commands /\ generation \in Nat
      /\ applied[d] \in Seq(Stores) /\ store \in Stores
      /\ sent[d].scope # None => sent[d].scope.generation \in Nat
  BY <1>1, Typed
<1>3. /\ sent[d].scope # None => sent[d].scope.generation = generation
      /\ sent[d].scope = None => ~scoped
  BY <1>1 DEF InScope, Selected
<1>4. Guarded(d) => applied[d] = <<>>
  <2> SUFFICES ASSUME Guarded(d), applied[d] # <<>> PROVE FALSE
    OBVIOUS
  <2>1. IF sent[d].scope # None THEN sent[d].scope.generation < generation ELSE scoped
    BY <1>1, Zenon DEF Answered, KeptOut
  <2> QED BY <1>2, <1>3, <2>1
<1>5. \A c \in Commands : c # d => applied'[c] = applied[c]
  BY <1>1, <1>2
<1>6. applied'[d] = Append(applied[d], store)
  BY <1>1, <1>2
<1>7. Guarded(d) => Len(applied'[d]) <= 1
  <2>1. Len(<<>>) = 0
    OBVIOUS
  <2>2. Len(Append(applied[d], store)) = Len(applied[d]) + 1
    BY <1>2
  <2> QED BY <1>4, <1>6, <2>1, <2>2
<1>8. \A c \in Commands : Guarded(c)' <=> Guarded(c)
  BY <1>1 DEF Guarded
<1>9. Single(applied, generation)'
  <2> SUFFICES ASSUME NEW c \in Commands, applied'[c] # <<>>
               PROVE  /\ sent[c] # None
                      /\ Guarded(c) => Len(applied'[c]) <= 1
                      /\ sent[c].scope # None => sent[c].scope.generation <= generation
    BY <1>1, <1>8, Zenon DEF Single
  <2>1. CASE c = d
    BY <1>1, <1>2, <1>3, <1>7, <2>1
  <2>2. CASE c # d
    BY <1>5, <2>2 DEF Answered, Single
  <2> QED BY <2>1, <2>2
<1>10. KeptOut(applied, receipts, generation, scoped)'
  <2> SUFFICES ASSUME NEW c \in Commands, applied'[c] # <<>>, Guarded(c), c # d
               PROVE  \/ c \in receipts
                      \/ IF sent[c].scope # None THEN sent[c].scope.generation < generation ELSE scoped
    BY <1>1, <1>8, Zenon DEF KeptOut
  <2>1. applied[c] # <<>>
    BY <1>5
  <2> QED BY <1>1, <2>1, Zenon DEF Answered, KeptOut
<1> QED BY <1>1, <1>9, <1>10, CopyAnswered DEF Answered

LEMMA AnsweredInit == Init => Answered
BY DEF Init, Answered, Single, KeptOut

LEMMA AnsweredStep == ASSUME Progress, Answered, [Next]_vars PROVE Answered'
<1>0. change # None => marker # None
  BY Typed
<1>1. CASE Crash
  <2>1. change' = None /\ UNCHANGED <<marker, generation, applied, receipts, scoped, backup>>
    BY <1>1 DEF Crash
  <2>2. Single(applied, generation)'
    BY <2>1, SingleRemains, Typed DEF Answered
  <2>3. marker = None => KeptOut(applied, receipts, generation, scoped)'
    BY <2>1, KeptOutRemains DEF Answered
  <2> QED BY <2>1, <2>2, <2>3, CopyAnswered DEF Answered
<1>2. CASE Restore
  <2>1. /\ backup # None /\ change' = None /\ backup' = None
        /\ applied' = backup.applied /\ receipts' = backup.receipts /\ scoped' = backup.scoped
        /\ generation' = backup.selected.generation
    BY <1>2 DEF Restore
  <2> QED BY <2>1, BackupRemains, Zenon DEF Answered, Single, KeptOut
<1>3. ASSUME NEW d \in Commands, Compose(d) PROVE Answered'
  <2>1. marker = None /\ change = None
        /\ UNCHANGED <<marker, generation, applied, receipts, scoped, backup, change>>
    BY <1>3 DEF Compose
  <2>2. Single(applied, generation)' /\ KeptOut(applied, receipts, generation, scoped)'
    BY <2>1, SingleRemains, KeptOutRemains, Typed DEF Answered
  <2> QED BY <2>1, <2>2, CopyAnswered DEF Answered
<1>4. CASE UNCHANGED vars
  BY <1>4 DEF vars, Answered, Single, KeptOut, Guarded, Wrote
<1> QED BY <1>1, <1>2, <1>3, <1>4, BeginAnswered, WriteAnswered, CompleteAnswered, FailAnswered,
           AcceptAnswered DEF Next

THEOREM ChangesAnswered == Spec => [](Progress /\ Answered)
<1> QED BY ProgressInit, ProgressStep, AnsweredInit, AnsweredStep, PTL DEF Spec

\* However often a command is sent again, over every change, crash, exception and
\* restored backup, it has one effect on the traffic in the database; without a
\* selection, unless it met a change of the day that was cut short, or its time was
\* taken back (device_command_response, record_device_command, start_traffic_day).
THEOREM CommandsApplyOnce == Spec => []AppliedOnce
<1>1. ASSUME Progress, Answered PROVE AppliedOnce
  <2> SUFFICES ASSUME NEW c \in Commands, Guarded(c) PROVE Len(applied[c]) <= 1
    BY DEF AppliedOnce, Guarded
  <2>1. CASE applied[c] = <<>>
    <3>1. Len(<<>>) = 0
      OBVIOUS
    <3> QED BY <2>1, <3>1
  <2>2. CASE applied[c] # <<>>
    BY <1>1, <2>2 DEF Answered, Single
  <2> QED BY <2>1, <2>2
<1> QED BY <1>1, ChangesAnswered, PTL

-----------------------------------------------------------------------------
(* The data a command was made from *)

\* Where the setting and the selection let the command in, the store still is what
\* its operator saw: all of it with a selection, the operating day without.
Sees(c, s, number, setting) ==
    IF sent[c].scope # None
      THEN /\ sent[c].scope.generation <= number
           /\ sent[c].scope.generation = number => SameOn(Durable, s, sent[c].seen)
      ELSE ~setting => SameOn(DayCells, s, sent[c].seen)

\* A change under way and a backup go by the store they can go back to.
Seen ==
    /\ \A c \in Commands \ stranded : sent[c] # None =>
         /\ marker = None => Sees(c, store, generation, scoped)
         /\ change # None => Sees(c, change.old, generation, scoped)
         /\ backup # None /\ c \in backup.sent =>
              Sees(c, backup.store, backup.selected.generation, backup.scoped)
    /\ backup # None => \A c \in backup.sent : sent[c] # None

LEMMA DayIsDurable == DayCells \subseteq Durable /\ Durable \subseteq Cells
BY DEF DayCells, Durable, Cells

LEMMA BeginSeen == ASSUME Progress, Seen, NEW kind \in Kinds, Begin(kind) PROVE Seen'
<1>1. /\ marker = None /\ change'.old = store
      /\ UNCHANGED <<store, generation, scoped, sent, stranded>>
      /\ backup' = backup \/ backup' = Image
  BY DEF Begin
<1>2. marker' # None
  BY Typed, LifecycleAssumption DEF Begin
<1>3. Image.sent = {c \in Commands : sent[c] # None} /\ Image.store = store
      /\ Image.scoped = scoped /\ Image.selected.generation = generation
  BY DEF Image, Selected
<1>4. \A c, s, number, setting : Sees(c, s, number, setting)' <=> Sees(c, s, number, setting)
  BY <1>1 DEF Sees
<1>5. ASSUME NEW c \in Commands \ stranded, sent[c] # None
      PROVE  /\ Sees(c, store, generation, scoped)
             /\ backup' # None /\ c \in backup'.sent =>
                  Sees(c, backup'.store, backup'.selected.generation, backup'.scoped)
  <2>1. Sees(c, store, generation, scoped)
    BY <1>1, <1>5 DEF Seen
  <2>2. CASE backup' = backup
    BY <1>5, <2>1, <2>2 DEF Seen
  <2>3. CASE backup' = Image
    BY <1>3, <2>1, <2>3
  <2> QED BY <1>1, <2>1, <2>2, <2>3
<1>6. backup' # None => \A c \in backup'.sent : sent[c] # None
  BY <1>1, <1>3 DEF Seen
<1> QED BY <1>1, <1>2, <1>5, <1>6 DEF Seen, Sees

LEMMA WriteSeen == ASSUME Progress, Seen, Write PROVE Seen'
<1>1. /\ change # None /\ marker # None /\ change'.old = change.old
      /\ scoped => scoped'
      /\ UNCHANGED <<generation, marker, backup, sent, stranded>>
  BY Typed DEF Write, Changes
<1> QED BY <1>1 DEF Seen, Sees

\* A new generation leaves the commands with a selection behind; the others need the
\* day to be as it was.
LEMMA CompletedSeen ==
    ASSUME Progress, Seen, change # None, Completed, UNCHANGED <<store, scoped, backup, sent>>,
           stranded \subseteq stranded',
           \/ scoped
           \/ SameOn(DayCells, store, change.old)
           \/ \A c \in Commands : sent[c] # None /\ sent[c].scope = None => c \in stranded'
    PROVE  Seen'
<1>1. change' = None /\ generation' = generation + 1 /\ generation \in Nat
  BY Typed DEF Completed
<1>2. ASSUME NEW c \in Commands \ stranded', sent[c] # None
      PROVE  Sees(c, store, generation, scoped)'
  <2>1. c \in Commands \ stranded /\ Sees(c, change.old, generation, scoped)
    BY <1>2 DEF Seen
  <2>2. CASE sent[c].scope # None
    <3>1. sent[c].scope.generation \in Nat /\ sent[c].scope.generation <= generation
      BY <1>2, <2>1, <2>2, Typed DEF Sees
    <3>2. sent[c].scope.generation <= generation' /\ sent[c].scope.generation # generation'
      BY <1>1, <3>1
    <3> QED BY <2>2, <3>2 DEF Sees
  <2>3. CASE sent[c].scope = None
    <3>1. scoped \/ SameOn(DayCells, store, change.old)
      BY <1>2, <2>3
    <3>2. ~scoped => SameOn(DayCells, store, sent[c].seen)
      BY <2>1, <2>3, <3>1 DEF Sees, SameOn
    <3> QED BY <2>3, <3>2 DEF Sees
  <2> QED BY <2>2, <2>3
<1> QED BY <1>1, <1>2 DEF Seen, Sees

LEMMA CompleteSeen == ASSUME Progress, Seen, Complete PROVE Seen'
<1>1. /\ change # None /\ Completed /\ UNCHANGED <<store, scoped, backup, sent, stranded>>
      /\ change.done = Len(Steps(change.kind)) /\ change.kind \in AllKinds
  BY Typed DEF Complete
<1>2. scoped \/ SameOn(DayCells, store, change.old)
  <2>1. CASE change.kind \in {"config", "edit"}
    BY <1>1, <2>1, LeftAlone DEF SameOn
  <2>2. CASE change.kind \notin {"config", "edit"}
    BY <1>1, <2>2, Finished
  <2> QED BY <2>1, <2>2
<1> QED BY <1>1, <1>2, CompletedSeen

LEMMA FailSeen == ASSUME Progress, Seen, Fail PROVE Seen'
<1>1. /\ change # None /\ marker # None /\ change.done \in Nat /\ change' = None
      /\ UNCHANGED <<scoped, receipts, backup, sent, applied>>
  BY Typed DEF Fail, CutShort, Completed, Reverted, LeftMarked
<1>2. CASE CutShort
  <2>1. Completed /\ store' = store /\ stranded \subseteq stranded'
    BY <1>2 DEF CutShort
  <2>2. CASE change.done = 0
    <3>1. SameOn(DayCells, store, change.old)
      BY <1>1, <2>2, NothingWritten, DayIsDurable DEF SameOn
    <3> QED BY <1>1, <2>1, <3>1, CompletedSeen
  <2>3. CASE change.done # 0
    <3>1. change.done > 0
      BY <1>1, <2>3
    <3>2. scoped \/ \A c \in Commands : sent[c] # None /\ sent[c].scope = None => c \in stranded'
      BY <1>2, <3>1, Zenon DEF CutShort
    <3> QED BY <1>1, <2>1, <3>2, CompletedSeen
  <2> QED BY <2>2, <2>3
<1>3. CASE Reverted
  <2>1. store' = change.old /\ UNCHANGED <<generation, stranded>>
    BY <1>3 DEF Reverted
  <2> QED BY <1>1, <2>1 DEF Seen, Sees
<1>4. CASE LeftMarked
  <2>1. UNCHANGED <<generation, marker, store, stranded>>
    BY <1>4 DEF LeftMarked
  <2> QED BY <1>1, <2>1 DEF Seen, Sees
<1> QED BY <1>2, <1>3, <1>4 DEF Fail

\* Building the engine anew leaves the durable data, and so what a command sees.
LEMMA RebuiltSeen ==
    ASSUME NEW s \in Stores, NEW c \in Commands, NEW number, NEW setting, Sees(c, s, number, setting)
    PROVE  Sees(c, Rebuilt(s), number, setting)
<1>1. \A x \in Durable : Rebuilt(s)[x] = s[x]
  BY RebuiltStore
<1>2. \A x \in DayCells : Rebuilt(s)[x] = s[x]
  BY <1>1, DayIsDurable
<1> QED BY <1>1, <1>2 DEF Sees, SameOn

LEMMA RestoreSeen == ASSUME Progress, Seen, Restore PROVE Seen'
<1>1. /\ backup # None /\ change' = None /\ backup' = None /\ sent' = sent
      /\ store' = Rebuilt(backup.store) /\ scoped' = backup.scoped
      /\ generation' = backup.selected.generation
      /\ stranded' = stranded \cup {c \in Commands : sent[c] # None /\ c \notin backup.sent}
  BY DEF Restore
<1>2. change = None
  BY DEF Restore
<1>3. backup.store \in Stores
  BY <1>1, Typed, ImageFields
<1>4. ASSUME NEW c \in Commands \ stranded', sent[c] # None
      PROVE  Sees(c, Rebuilt(backup.store), backup.selected.generation, backup.scoped)
  <2>1. c \in Commands \ stranded /\ c \in backup.sent
    BY <1>1, <1>4
  <2>2. Sees(c, backup.store, backup.selected.generation, backup.scoped)
    BY <1>1, <1>4, <2>1 DEF Seen
  <2> QED BY <1>3, <2>2, RebuiltSeen
<1> QED BY <1>1, <1>4 DEF Seen, Sees

LEMMA ComposeSeen == ASSUME Progress, Seen, NEW d \in Commands, Compose(d) PROVE Seen'
<1>1. /\ sent[d] = None /\ change = None /\ marker = None
      /\ UNCHANGED <<generation, marker, change, store, scoped, backup, stranded>>
  BY DEF Compose
<1>2. PICK scope \in {Selected, None} : sent' = [sent EXCEPT ![d] = [scope |-> scope, seen |-> store]]
  BY DEF Compose
<1>3. sent'[d] = [scope |-> scope, seen |-> store] /\ \A c \in Commands : c # d => sent'[c] = sent[c]
  BY <1>2, Typed
<1>4. Sees(d, store, generation, scoped)'
  <2>1. scope # None => scope.generation = generation
    BY DEF Selected
  <2>2. generation \in Nat
    BY Typed
  <2> QED BY <1>1, <1>3, <2>1, <2>2 DEF Sees, SameOn
<1>5. backup # None => d \notin backup.sent /\ backup.sent \subseteq Commands
  BY <1>1, Typed, ImageFields DEF Seen
<1>6. \A c \in Commands : c # d => \A s, number, setting : Sees(c, s, number, setting)' <=> Sees(c, s, number, setting)
  BY <1>3 DEF Sees
<1>7. ASSUME NEW c \in Commands \ stranded, sent'[c] # None
      PROVE  /\ Sees(c, store, generation, scoped)'
             /\ backup # None /\ c \in backup.sent =>
                  Sees(c, backup.store, backup.selected.generation, backup.scoped)'
  <2>1. CASE c = d
    BY <1>4, <1>5, <2>1
  <2>2. CASE c # d
    <3>1. sent[c] # None
      BY <1>3, <1>7, <2>2
    <3>2. Sees(c, store, generation, scoped)
          /\ (backup # None /\ c \in backup.sent =>
                Sees(c, backup.store, backup.selected.generation, backup.scoped))
      BY <1>1, <3>1 DEF Seen
    <3> QED BY <1>1, <1>3, <2>2, <3>2 DEF Sees
  <2> QED BY <2>1, <2>2
<1>8. (backup # None => \A c \in backup.sent : sent[c] # None)'
  BY <1>1, <1>3, <1>5 DEF Seen
<1> QED BY <1>1, <1>7, <1>8 DEF Seen

LEMMA SeenInit == Init => Seen
BY DEF Init, Seen

LEMMA SeenStep == ASSUME Progress, Seen, [Next]_vars PROVE Seen'
<1>0. change # None => marker # None
  BY Typed
<1>1. CASE Crash
  <2>1. /\ change' = None /\ store' = Rebuilt(store)
        /\ UNCHANGED <<generation, marker, scoped, backup, sent, stranded>>
    BY <1>1 DEF Crash
  <2>2. ASSUME NEW c \in Commands \ stranded, sent[c] # None, marker = None
        PROVE  Sees(c, Rebuilt(store), generation, scoped)
    <3>1. Sees(c, store, generation, scoped)
      BY <2>2 DEF Seen
    <3> QED BY <3>1, RebuiltSeen, Typed
  <2> QED BY <2>1, <2>2 DEF Seen, Sees
<1>2. ASSUME NEW c \in Commands, Accept(c) PROVE Seen'
  BY <1>2 DEF Accept, Seen, Sees
<1>3. CASE UNCHANGED vars
  BY <1>3 DEF vars, Seen, Sees
<1> QED BY <1>1, <1>2, <1>3, BeginSeen, WriteSeen, CompleteSeen, FailSeen, RestoreSeen, ComposeSeen DEF Next

\* The effects of these commands are on the data they were made from; and so in the copy.
FitsData(effects) ==
    \A c \in Commands \ stranded : \A k \in DOMAIN effects[c] :
        SameOn(IF sent[c].scope # None THEN Durable ELSE DayCells, effects[c][k], sent[c].seen)

Fitting == FitsData(applied) /\ (backup # None => FitsData(backup.applied))

\* Effects that stay as they are go on fitting: only commands without effects are made.
LEMMA FittingRemains ==
    ASSUME Progress, [Next]_vars, NEW effects,
           \A c \in Commands : effects[c] # <<>> => sent[c] # None, FitsData(effects)
    PROVE  \A c \in Commands \ stranded' : \A k \in DOMAIN effects[c] :
             SameOn(IF sent'[c].scope # None THEN Durable ELSE DayCells, effects[c][k], sent'[c].seen)
<1> SUFFICES ASSUME NEW c \in Commands \ stranded', NEW k \in DOMAIN effects[c]
             PROVE  SameOn(IF sent'[c].scope # None THEN Durable ELSE DayCells, effects[c][k], sent'[c].seen)
  OBVIOUS
<1>1. effects[c] # <<>>
  <2>1. DOMAIN <<>> = {}
    OBVIOUS
  <2> QED BY <2>1
<1>2. sent'[c] = sent[c] /\ c \in Commands \ stranded
  BY <1>1, CommandsRemain
<1> QED BY <1>2 DEF FitsData

LEMMA AcceptFitting ==
    ASSUME Progress, Answered, Seen, Fitting, [Next]_vars, NEW d \in Commands, Accept(d)
    PROVE  FitsData(applied)'
<1>1. /\ sent[d] # None /\ marker = None /\ InScope(d)
      /\ applied' = [applied EXCEPT ![d] = Append(applied[d], store)]
      /\ UNCHANGED <<sent, stranded>>
  BY DEF Accept
<1>2. DOMAIN applied = Commands /\ applied[d] \in Seq(Stores) /\ store \in Stores
  BY Typed
<1>3. d \notin stranded =>
        SameOn(IF sent[d].scope # None THEN Durable ELSE DayCells, store, sent[d].seen)
  <2> SUFFICES ASSUME d \notin stranded
               PROVE  SameOn(IF sent[d].scope # None THEN Durable ELSE DayCells, store, sent[d].seen)
    OBVIOUS
  <2>1. Sees(d, store, generation, scoped)
    BY <1>1 DEF Seen
  <2>2. CASE sent[d].scope # None
    <3>1. sent[d].scope.generation = generation
      BY <1>1, <2>2 DEF InScope, Selected
    <3> QED BY <2>1, <2>2, <3>1 DEF Sees
  <2>3. CASE sent[d].scope = None
    <3>1. ~scoped
      BY <1>1, <2>3 DEF InScope
    <3> QED BY <2>1, <2>3, <3>1 DEF Sees
  <2> QED BY <2>2, <2>3
<1>4. ASSUME NEW c \in Commands \ stranded, NEW k \in DOMAIN applied'[c]
      PROVE  SameOn(IF sent[c].scope # None THEN Durable ELSE DayCells, applied'[c][k], sent[c].seen)
  <2>1. CASE c = d
    <3> DEFINE before == applied[d]
    <3>1. applied'[c] = Append(before, store) /\ before \in Seq(Stores)
      BY <1>1, <1>2, <2>1
    <3>2. (k \in DOMAIN before /\ applied'[c][k] = before[k]) \/ applied'[c][k] = store
      <4> HIDE DEF before
      <4> QED BY <1>2, <1>4, <3>1
    <3> QED BY <1>3, <1>4, <2>1, <3>2 DEF Fitting, FitsData
  <2>2. CASE c # d
    <3>1. applied'[c] = applied[c]
      BY <1>1, <1>2, <2>2
    <3> QED BY <1>4, <3>1 DEF Fitting, FitsData
  <2> QED BY <2>1, <2>2
<1> QED BY <1>1, <1>4 DEF FitsData

LEMMA FittingInit == Init => Fitting
<1> SUFFICES ASSUME Init PROVE Fitting
  OBVIOUS
<1>1. DOMAIN <<>> = {}
  OBVIOUS
<1> QED BY <1>1 DEF Init, Fitting, FitsData

LEMMA FittingStep == ASSUME Progress, Answered, Seen, Fitting, [Next]_vars PROVE Fitting'
<1>1. \A c \in Commands \ stranded' : \A k \in DOMAIN applied[c] :
         SameOn(IF sent'[c].scope # None THEN Durable ELSE DayCells, applied[c][k], sent'[c].seen)
  BY FittingRemains DEF Answered, Single, Fitting
<1>2. backup # None =>
         \A c \in Commands \ stranded' : \A k \in DOMAIN backup.applied[c] :
           SameOn(IF sent'[c].scope # None THEN Durable ELSE DayCells, backup.applied[c][k], sent'[c].seen)
  BY FittingRemains DEF Answered, Single, Fitting
<1>3. ASSUME applied' = applied, backup' = backup PROVE Fitting'
  BY <1>1, <1>2, <1>3 DEF Fitting, FitsData
<1>4. ASSUME NEW kind \in Kinds, Begin(kind) PROVE Fitting'
  <2>1. applied' = applied /\ (backup' = backup \/ backup' = Image) /\ Image.applied = applied
    BY <1>4 DEF Begin, Image
  <2>2. CASE backup' = Image
    BY <1>1, <2>1, <2>2 DEF Fitting, FitsData
  <2> QED BY <1>3, <2>1, <2>2
<1>5. CASE Write \/ Complete \/ Fail \/ Crash \/ UNCHANGED vars
  BY <1>3, <1>5 DEF Write, Complete, Fail, Crash, vars
<1>6. CASE Restore
  <2>1. backup # None /\ applied' = backup.applied /\ backup' = None
    BY <1>6 DEF Restore
  <2> QED BY <1>2, <2>1 DEF Fitting, FitsData
<1>7. ASSUME NEW c \in Commands, Compose(c) PROVE Fitting'
  BY <1>3, <1>7 DEF Compose
<1>8. ASSUME NEW c \in Commands, Accept(c) PROVE Fitting'
  <2>1. FitsData(applied)' /\ backup' = backup
    BY <1>8, AcceptFitting DEF Accept
  <2> QED BY <1>2, <2>1 DEF Fitting, FitsData
<1> QED BY <1>4, <1>5, <1>6, <1>7, <1>8 DEF Next

\* Whichever resend of a command arrives, over every change, crash, exception and
\* restored backup: it takes effect only on the data its operator was looking at
\* (handle_command's comparison of the selection), without a selection on the same
\* operating day (require_scoped_commands); but for the commands made in time that a
\* restored backup took back, whose generation is handed out again.
THEOREM CommandsStayHome == Spec => []CommandsFitTheirData
<1>1. Progress /\ Answered /\ Seen /\ Fitting /\ [Next]_vars => Seen' /\ Fitting'
  BY SeenStep, FittingStep
<1>2. Fitting => CommandsFitTheirData
  BY DEF Fitting, FitsData, CommandsFitTheirData
<1> QED BY <1>1, <1>2, SeenInit, FittingInit, ChangesAnswered, PTL DEF Spec


=============================================================================
