------------------------------ MODULE MCString ------------------------------
(* Two strings of at most three characters, of which one fits in sso_.     *)
EXTENDS String, TLC

CONSTANTS s1, s2

MCObjects == {s1, s2}
MCLiterals == {<<1>>, <<1, 1>>, <<1, 1, 1>>}
MCLetters == {0, 1}
MCPositions == {0, 1, 3}
MCCounts == {0, 1, 2, 99}
MCSymmetry == Permutations(MCObjects)
=============================================================================
