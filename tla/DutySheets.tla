----------------------------- MODULE DutySheets ----------------------------
(***************************************************************************)
(* Where in a printed PDF the sheets of each duty stand                    *)
(* (matchPages of web/lokforaren-koruppdrag.js).  A page is what the       *)
(* reading sees on it: the numbers that follow a word for a duty, in the   *)
(* order of the text; the numbers of duties that stand alone on a row of a *)
(* cover; and the numbers of trains.                                       *)
(***************************************************************************)
EXTENDS Integers, Sequences, SequencesExt, FiniteSetsExt

CONSTANTS
    Duties,     \* the numbers of the duties of the plan
    TrainsOf,   \* [duty -> the numbers of its trains, in order]
    Kinds,      \* pages: [heads, alone, trains]
    MaxPages,
    GAP,        \* so many pages without a number continue a duty
    None

VARIABLE pages

vars == <<pages>>

Init == pages = <<>>

\* extract: page after page.
Read(kind) ==
    /\ Len(pages) < MaxPages
    /\ pages' = Append(pages, kind)

Next == \E kind \in Kinds : Read(kind)

(* -------------------------------- owners -------------------------------- *)

Sheets == 1..Len(pages)
Heads(i) == pages[i].heads
Count(i, d) == Cardinality({k \in DOMAIN Heads(i) : Heads(i)[k] = d})
Known(i) == ToSet(Heads(i)) \cap Duties

\* The number that stands most often, of several the one that stands first.
Named(i) ==
    CHOOSE d \in Known(i) : \A e \in Known(i) \ {d} :
        \/ Count(i, d) > Count(i, e)
        \/ Count(i, d) = Count(i, e) /\ \E k \in DOMAIN Heads(i) :
               Heads(i)[k] = d /\ \A j \in 1..k : Heads(i)[j] # e

Contents(i) == Cardinality(ToSet(Heads(i))) >= 3
Cover(i) == Known(i) = {} /\ Len(pages[i].alone) = 1

\* The duty a page is of by its number, if any.
Owner(i) ==
    IF Contents(i) THEN None
    ELSE IF Known(i) # {} THEN Named(i)
    ELSE IF Cover(i) THEN pages[i].alone[1]
    ELSE None

\* A table of contents, or a duty the plan does not have.
Foreign(i) == Contents(i) \/ (Known(i) = {} /\ ~Cover(i) /\ Heads(i) # <<>>)

Silent(i) == Owner(i) = None /\ ~Foreign(i)

\* The pages without a number around page i, from f to t.
Around(i, f, t) ==
    /\ f <= i /\ i <= t
    /\ \A j \in f..t : Silent(j)
    /\ f > 1 => ~Silent(f - 1)
    /\ t < Len(pages) => ~Silent(t + 1)

\* A gap inside a duty is the duty's, and so is a short one after it.
Fill(before, after, short) == IF before # None /\ (before = after \/ short) THEN before ELSE None

Filled(i) ==
    IF ~Silent(i) THEN Owner(i)
    ELSE LET gap == CHOOSE g \in (1..i) \X (i..Len(pages)) : Around(i, g[1], g[2])
         IN Fill(IF gap[1] = 1 THEN None ELSE Owner(gap[1] - 1),
                 IF gap[2] = Len(pages) THEN None ELSE Owner(gap[2] + 1),
                 gap[2] - gap[1] + 1 <= GAP)

\* All the trains of the duty stand on the page.
Mentions(i, d) ==
    /\ TrainsOf[d] # <<>>
    /\ ToSet(TrainsOf[d]) \subseteq pages[i].trains

\* The duty with the most trains of those, if there is one.
Recognised(i) ==
    {d \in Duties : /\ Mentions(i, d)
                    /\ \A e \in Duties \ {d} : Mentions(i, e) => Len(TrainsOf[e]) < Len(TrainsOf[d])}

\* Without a number anywhere a page goes on with the duty that was recognised last.
ByTrains(i) ==
    LET seen == {j \in 1..i : Recognised(j) # {}}
    IN IF seen = {} THEN None ELSE CHOOSE d \in Recognised(Max(seen)) : TRUE

Numbered == \E i \in Sheets : Owner(i) # None

Owners == [i \in Sheets |-> IF Numbered THEN Filled(i) ELSE ByTrains(i)]

(* -------------------------------- ranges -------------------------------- *)

\* The first pages of the duty in a row.
RangeOf(owners, d) ==
    {i \in DOMAIN owners : \E first \in 1..i :
        /\ \A j \in 1..(first - 1) : owners[j] # d
        /\ \A j \in first..i : owners[j] = d}

\* The sheets mention none of the duty's trains, which is said as well.
Doubtful(owners, d) ==
    /\ RangeOf(owners, d) # {} /\ TrainsOf[d] # <<>>
    /\ \A i \in RangeOf(owners, d) : ToSet(TrainsOf[d]) \cap pages[i].trains = {}

(* ------------------------------ properties ------------------------------ *)

\* The pages are pages.
TypeOK == pages \in Seq(Kinds) /\ Len(pages) <= MaxPages

\* A driver is never given the sheet of another duty: the sheets of a duty are in a row,
\* no page is in two of them, a page that bears the number of one duty is among the sheets
\* of no other, and what stands before the first duty belongs to nobody.  (Where every
\* number stands in a table of contents the trains decide, on that page too.)
OwnSheets(owners) ==
    \A d \in Duties : LET sheets == RangeOf(owners, d) IN
        /\ \A i, k \in sheets : i..k \subseteq sheets
        /\ \A e \in Duties \ {d} : sheets \cap RangeOf(owners, e) = {}
        /\ Numbered => \A i \in sheets : ToSet(Heads(i)) \cap Duties \subseteq {d} \/ Owner(i) = d
        /\ Numbered => \A i \in sheets : \E j \in 1..i : Owner(j) = d

\* Nor is one left out: what stands inside a duty without a number is the duty's, however
\* long; and after it, as long as the comment of matchPages says.
WholeDuties(owners) ==
    Numbered => \A d \in Duties : LET sheets == RangeOf(owners, d) IN
        \A i \in sheets, k \in Sheets :
            /\ Owner(i) = d /\ i < k /\ (\A j \in (i + 1)..(k - 1) : Silent(j))
            /\ (Owner(k) = d \/ (Silent(k) /\ \A j \in i..Len(pages) : j <= i + GAP \/ ~\A m \in (i + 1)..j : Silent(m)))
            => k \in sheets

\* Where no number stands the first sheet of a duty bears all its trains, and no other duty
\* with more trains has all of its own there; such sheets are never doubtful.
RightTrains(owners) ==
    ~Numbered => \A d \in Duties : RangeOf(owners, d) # {} =>
        LET i == Min(RangeOf(owners, d))
        IN /\ ToSet(TrainsOf[d]) \subseteq pages[i].trains
           /\ ~\E e \in Duties : Len(TrainsOf[e]) > Len(TrainsOf[d]) /\ ToSet(TrainsOf[e]) \subseteq pages[i].trains
           /\ ~Doubtful(owners, d)

Safe ==
    LET owners == Owners
    IN OwnSheets(owners) /\ WholeDuties(owners) /\ RightTrains(owners)
=============================================================================
