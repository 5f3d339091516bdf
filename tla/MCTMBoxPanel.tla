---------------------------- MODULE MCTMBoxPanel ----------------------------
(* A station with two trains, two lines and two cases for TLC. *)
EXTENDS TMBoxPanel

CONSTANTS m1, m2, c1, c2, l1, t1, k1, k2,
          MaxOverlaps     \* bound: the refreshes that start while another waits for the station

MCOrder == <<m1, m2>>
MCCases == <<c1, c2>>
MCOurs == {c2}
MCMessages == <<l1>>
MCLines == <<k1, k2>>
MCTracks == <<t1>>

\* One refresh at a time: two trains that ask for a line; a case towards the
\* station; a case of its own that waits.  Two: a train; a message and no train.
Traffic(moves, theirs, ours, messages, steps) ==
    [steps |-> steps,
     moves |-> [m \in {m1, m2} |-> IF m \in moves THEN "asks" ELSE "gone"],
     cases |-> [c \in {c1, c2} |-> IF c = c1 THEN theirs ELSE ours], messages |-> [l \in {l1} |-> messages]]
Alone == {Traffic({m1, m2}, "gone", "gone", "gone", 1), Traffic({}, "none", "gone", "gone", 2),
          Traffic({}, "gone", "waiting", "gone", 1)}
Overlapped == {Traffic({m1}, "gone", "gone", "gone", 1), Traffic({}, "gone", "gone", "none", 1)}
MCTraffics == Alone \cup Overlapped

VARIABLE overlaps       \* the refreshes that may still start while another waits for the station

MCInit ==
    /\ Init
    /\ overlaps = IF \E traffic \in Alone : server.moves = traffic.moves /\ Now.cases = traffic.cases
                                           /\ Now.messages = traffic.messages
                  THEN 0 ELSE MaxOverlaps

Running(tasks) == {r \in Refreshes : tasks[r] # None}
Overlapping == Running(asked) # {} /\ Cardinality(Running(asked')) > Cardinality(Running(asked))

MCNext ==
    /\ Next
    /\ Overlapping =>
          overlaps > 0 /\ \E r \in Running(asked) : asked[r].at = IF Here = {} THEN "snapshot" ELSE "config"
    /\ overlaps' = IF Overlapping THEN overlaps - 1 ELSE overlaps

MCSpec == MCInit /\ [][MCNext]_<<vars, overlaps>> /\ Fairness
=============================================================================
