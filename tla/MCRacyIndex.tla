---------------------------- MODULE MCRacyIndex ----------------------------
\* Two contents of the same size and the empty one.
EXTENDS RacyIndex, TLC

CONSTANTS a, b, empty, P, V, F

MCSizeOf == a :> 1 @@ b :> 1 @@ empty :> 0
Symmetry == Permutations({a, b})
=============================================================================
