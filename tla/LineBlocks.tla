----------------------------- MODULE LineBlocks -----------------------------
(***************************************************************************)
(* What the clearance service promises about the lines, with no word about *)
(* cases, timetables, tracks, clocks or stations (docs/protocol/v2, 7.1):  *)
(* a line is free, asked for, granted or occupied, always for one train,   *)
(* and once granted it goes to nobody else before it has been free.        *)
(***************************************************************************)
CONSTANTS Lines, Trains, Free

VARIABLE line       \* line[l]: Free, or who holds it and how firmly

Claim == [holder : Trains, state : {"asked", "granted", "occupied"}]

Init == line = [l \in Lines |-> Free]

\* The steps of one line, from what it was to what it is.
\* A question may replace another that lapsed unanswered, never a grant.
Ask(was, is) ==
    /\ was = Free \/ was.state = "asked"
    /\ is # Free /\ is.state \in {"asked", "granted"}

Grant(was, is) == was # Free /\ was.state = "asked" /\ is = [was EXCEPT !.state = "granted"]

Enter(was, is) == was # Free /\ was.state = "granted" /\ is = [was EXCEPT !.state = "occupied"]

Clear(was, is) == was # Free /\ is = Free

\* One command may touch several lines.  Each of them takes at most one step, and
\* nobody comes to hold a second line.
Next ==
    LET before == line
        after == line'
        Alone(l) == \A k \in Lines \ {l} : after[k] = Free \/ after[k].holder # after[l].holder
    IN  /\ after \in [Lines -> Claim \cup {Free}]
        /\ \A l \in Lines : after[l] # before[l] =>
             \/ Ask(before[l], after[l]) /\ Alone(l)
             \/ Grant(before[l], after[l])
             \/ Enter(before[l], after[l])
             \/ Clear(before[l], after[l])

Spec == Init /\ [][Next]_line
=============================================================================
