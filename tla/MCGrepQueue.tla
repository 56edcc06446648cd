---------------------------- MODULE MCGrepQueue ----------------------------
(* GrepQueue for TLC: a ring of four slots, more files than it holds.     *)
EXTENDS GrepQueue

CONSTANTS c1, c2, c3

MCMatches == {1, 2, 4, 5, 7}
=============================================================================
