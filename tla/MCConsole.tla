------------------------------ MODULE MCConsole ------------------------------
(* A terminal of three rows of two columns, and a ring of three lines. *)
EXTENDS Console

MCTexts == {<<"a", "LF", "LF">>, <<"LF", "a", "a">>, <<"a", "BS", "BS">>}
MCMaxOps == [shell |-> 4, game |-> 2, bar |-> 2]
=============================================================================
