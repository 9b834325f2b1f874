------------------------------ MODULE MCKeyboard ------------------------------
(* Keyboard with a ring of two characters, a history of two lines, and rows of *)
(* six columns, which a line of three characters fits into.                    *)
EXTENDS Keyboard, TLC

Press(c) == [code |-> c, release |-> FALSE]
Release(c) == [code |-> c, release |-> TRUE]

MCBytes ==
  {Release("ctrl"), Press("shift")}
    \cup {Press(c) : c \in {"E0", "LF", "BS", "Up", "Left", "PageUp", "End"}}
    \cup {Press(c) : c \in Letters}

\* No line yet, and a ring that has gone around.
MCHistories ==
  {[buf |-> [i \in 0 .. 1 |-> << >>], count |-> 0, head |-> 0, pos |-> -1],
   [buf |-> (0 :> <<"a", "d">> @@ 1 :> <<"a">>), count |-> 2, head |-> 1, pos |-> -1]}
=============================================================================
