--------------------------- MODULE MCPackThreads ---------------------------
(* PackThreads for TLC: three threads; a few paths, one of them long.      *)
EXTENDS PackThreads

MCHash == [k \in 0..(N - 1) |-> IF k \in {2, 20} THEN 0 ELSE IF k < 7 THEN 1 ELSE 2]
=============================================================================
