--------------------------- MODULE MCTerminalLink ---------------------------
(* The boxes and the server's two threads on small sets for TLC. *)
EXTENDS TerminalLink

CONSTANTS d1, d2

\* One box presses a key and connects again, the other takes up room.
OnePress == {<<d1, 1>>}
Connections == [d \in Devices |-> IF d = d1 THEN 2 ELSE 1]

\* Two keys of one box.
TwoPresses == {<<d1, 1>>, <<d1, 2>>}

\* Two stations, or one in two generations.
Stations == [d \in Devices |-> IF d = d1 THEN {1, 2} ELSE {}]
First == [d \in Devices |-> IF d = d1 THEN 1 ELSE None]
=============================================================================
